---------------------------- MODULE Spec2Model ----------------------------
(***************************************************************************)
(* Model of the embeddings evaluation harness: the Metrics accumulator     *)
(* (lib/metrics.js), the Validator (lib/validate.js), the reranker helpers *)
(* (lib/rerank-utils.js, lib/reranker.js) and EmbeddingsEvaluator.search / *)
(* runEvaluation (index.js).                                               *)
(*                                                                         *)
(* Numbers.  JavaScript percentages are doubles; they are modelled as      *)
(* exact fractions [num, den] kept in lowest terms, and compared by cross  *)
(* multiplication.  Similarity and relevance scores are only ever compared *)
(* with the threshold, so they are modelled as integers counting tenths    *)
(* (0.9 is 9, 0.4 is 4).                                                   *)
(***************************************************************************)
EXTENDS Integers, Sequences, FiniteSets, TLC

VARIABLES
    \* EmbeddingsEvaluator fields and run inputs
    modelConfig,       \* this.modelConfig: minSimilarity (may be absent), cost
    rerankerService,   \* TRUE iff this.rerankerService is set
    indexSize,         \* number of items held by the vector index
    evalData,          \* the array loaded from eval.json
    caller,            \* who calls search: "runEvaluation" or "direct"
    \* control
    pc,                \* position in runEvaluation / search
    error,             \* the error thrown to the caller, None if none
    \* locals of search
    query,             \* the query text
    topK,              \* the topK argument
    tokens,            \* result.tokens of the embedding call
    searchLimit,       \* number of items asked of the index
    results,           \* the array returned by index.queryItems
    minSimilarity,     \* modelConfig?.minSimilarity || 0.0
    candidateResults,  \* above-threshold results (reranked once reranking succeeded)
    belowThresholdTop3,\* at most three below-threshold results
    rerankerCost,
    rerankerTokens,
    rerankerInput,     \* the documents handed to rerankerService.rerank
    rerankedResults,   \* the array the rerank call answered
    rerankStatus,      \* "none", "skipped", "reranked" or "failed" (catch block ran)
    searchResponse,    \* the object returned by search, None before it returns
    \* locals of runEvaluation
    evalIndex,         \* position of the for-of loop in evalData
    runResults,        \* the results array of runEvaluation
    foundIds,          \* array handed to calculateRecall/Precision/validateResults
    expectedIds,       \* array of expected ids (evalItem.expected || [])
    recall,            \* result of Metrics.calculateRecall, None before the call
    precision,         \* result of Metrics.calculatePrecision, None before the call
    expectedFoundCount,     \* number of expected ids among the found ones
    validation,        \* result of Validator.validateResults, None before the call
    \* Metrics fields
    evaluateMetrics,   \* Metrics.evaluateMetrics, the evaluation history
    rerankerMetrics,   \* Metrics.rerankerMetrics
    totals,            \* report returned by the getEvaluateTotals call just made
    \* the command-line commands (generate, full pipeline) and the disk
    command,           \* the command this process runs, "none" when there is none
    cmdPc,             \* position in the command
    disk,              \* index folder: index file name -> its items, None if absent
    content,           \* the array in content.json
    itemIndex,         \* i of the loop of Generator.buildIndex
    generatorMetrics,  \* generator.metrics.generateMetrics
    generateMetrics,   \* this.metrics.generateMetrics of the evaluator
    metricsFile,       \* metrics written to generation-metrics-{model}.json
    resultsFile,       \* results written to evaluation-results-{model}.json
    exitCode,          \* argument of process.exit, None while the process runs
    \* calls of the reranker detection helpers of rerank-utils
    rerankerServiceArg,\* TRUE iff the rerankerService argument is an object (not null)
    configArg,         \* the config argument: None for null, else Some(key -> value)
    environment,       \* names of the variables set in process.env
    available,         \* result of isRerankerAvailable, None before the call
    requirements,      \* result of checkRerankerRequirements, None before the call
    \* a call of LocalIndexWrapper.retryOperation
    retryPc,           \* "idle", "loop", "waiting", "returned" or "thrown"
    attempt,           \* the loop variable of retryOperation
    maxRetries,        \* the maxRetries argument
    operationName,     \* the operationName argument
    lastError,         \* the error caught last, None before any
    operationLog,      \* what each invocation of the operation did, in order
    retryResult,       \* the value retryOperation returned, None if none
    retryError,        \* the error retryOperation threw, None if none
    retryDelay,        \* the delay computed last, in sixteenths of a millisecond
    tempFiles,         \* the files lying in the index folder
    \* Metrics.getAllMetrics
    allMetrics         \* report returned by the getAllMetrics call just made

commandVars == <<command, cmdPc, disk, content, itemIndex, generatorMetrics,
                 generateMetrics, metricsFile, resultsFile, exitCode>>
detectionVars == <<rerankerServiceArg, configArg, environment, available,
                   requirements>>
retryVars == <<retryPc, attempt, maxRetries, operationName, lastError,
               operationLog, retryResult, retryError, retryDelay, tempFiles>>
reportVars == <<allMetrics>>
componentVars == <<commandVars, detectionVars, retryVars, reportVars>>
configVars == <<modelConfig, rerankerService, indexSize, evalData, caller,
                componentVars>>
rerankLocals == <<rerankerInput, rerankedResults>>
searchVars == <<query, topK, tokens, searchLimit, results, minSimilarity,
                candidateResults, belowThresholdTop3, rerankerCost,
                rerankerTokens, rerankLocals, rerankStatus, searchResponse>>
scoreVars == <<foundIds, expectedIds, recall, precision, expectedFoundCount, validation>>
pipelineVars == <<configVars, pc, error, searchVars, evalIndex, runResults,
                  expectedFoundCount, rerankerMetrics>>

vars == <<configVars, pc, error, searchVars, evalIndex, runResults, scoreVars,
          evaluateMetrics, rerankerMetrics, totals>>

\* a value that is not there yet is the empty tuple, one that is there a 1-tuple
None == <<>>
Some(x) == <<x>>
IsSome(v) == v # None
The(v) == v[1]

\* no command has been started: the state of the command variables in the
\* specifications that call the evaluator's methods directly
CommandIdle ==
    /\ command = "none"
    /\ cmdPc = "idle"
    /\ disk = <<>>
    /\ content = <<>>
    /\ itemIndex = 0
    /\ generatorMetrics = <<>>
    /\ generateMetrics = <<>>
    /\ metricsFile = None
    /\ resultsFile = None
    /\ exitCode = None

\* no call of the reranker detection helpers has been set up
DetectionIdle ==
    /\ rerankerServiceArg = FALSE
    /\ configArg = None
    /\ environment = {}
    /\ available = None
    /\ requirements = None

\* no call of retryOperation has been set up
RetryIdle ==
    /\ retryPc = "idle"
    /\ attempt = 0
    /\ maxRetries = 0
    /\ operationName = ""
    /\ lastError = None
    /\ operationLog = <<>>
    /\ retryResult = None
    /\ retryError = None
    /\ retryDelay = 0
    /\ tempFiles = {}

\* getAllMetrics has not been called
ReportIdle == allMetrics = None

ComponentsIdle == CommandIdle /\ DetectionIdle /\ RetryIdle /\ ReportIdle

-----------------------------------------------------------------------------
(* Bounds of the model *)

\* longest foundIds array given to the pure functions
MaxFound == 3
\* longest expectedIds array given to the pure functions
MaxExpected == 2
\* longest evaluation history explored for the accumulator
MaxHistory == 2

\* document ids of the corpus
Ids == {1, 2, 3}

-----------------------------------------------------------------------------
(* Exact fractions standing for JavaScript doubles *)

RECURSIVE GCD(_, _)
GCD(a, b) == IF b = 0 THEN a ELSE GCD(b, a % b)

Abs(x) == IF x < 0 THEN -x ELSE x

\* the fraction n/d (d > 0) in lowest terms
Frac(n, d) ==
    LET g == GCD(Abs(n), d)
    IN  [num |-> n \div g, den |-> d \div g]

FracInt(n) == [num |-> n, den |-> 1]
FracAdd(a, b) == Frac(a.num * b.den + b.num * a.den, a.den * b.den)
FracMulInt(a, k) == Frac(a.num * k, a.den)
FracDivInt(a, k) == Frac(a.num, a.den * k)
FracEq(a, b) == a.num * b.den = b.num * a.den
FracLeq(a, b) == a.num * b.den <= b.num * a.den

Max(a, b) == IF a >= b THEN a ELSE b
Min(a, b) == IF a <= b THEN a ELSE b

Range(s) == {s[i] : i \in 1..Len(s)}

\* all arrays over S of length at most n
SeqsUpTo(S, n) == UNION {[1..k -> S] : k \in 0..n}

\* Array.prototype.filter
Filter(s, Test(_)) == SelectSeq(s, Test)

\* Array.prototype.slice(0, n)
Slice0(s, n) == SubSeq(s, 1, Min(n, Len(s)))

\* Array.prototype.map
Map(s, f(_)) == [i \in 1..Len(s) |-> f(s[i])]

\* Array.prototype.reduce((sum, x) => sum + x, 0) on integers, left to right
RECURSIVE SumSeq(_)
SumSeq(s) ==
    IF s = <<>> THEN 0
    ELSE SumSeq(SubSeq(s, 1, Len(s) - 1)) + s[Len(s)]

\* Array.prototype.reduce((sum, x) => sum + x, 0) on doubles, left to right
RECURSIVE FracSumSeq(_)
FracSumSeq(s) ==
    IF s = <<>> THEN FracInt(0)
    ELSE FracAdd(FracSumSeq(SubSeq(s, 1, Len(s) - 1)), s[Len(s)])

-----------------------------------------------------------------------------
(* Metrics: the static calculations *)

\* calculateRecall without the empty-expectation convention (returns 0 whenever
\* nothing is expected)
calculateRecallNoEmptyCase(found, expected) ==
    IF Len(expected) = 0 THEN FracInt(0)
    ELSE LET foundSet == Range(found)
             expectedFound == Len(Filter(expected, LAMBDA id : id \in foundSet))
         IN  FracMulInt(Frac(expectedFound, Len(expected)), 100)

\* Metrics.calculateRecall(foundIds, expectedIds)
calculateRecall(found, expected) ==
    IF Len(expected) = 0
    THEN (IF Len(found) = 0 THEN FracInt(100) ELSE FracInt(0))
    ELSE LET foundSet == Range(found)
             expectedFound == Len(Filter(expected, LAMBDA id : id \in foundSet))
         IN  FracMulInt(Frac(expectedFound, Len(expected)), 100)

\* calculatePrecision dividing by the number of expected ids
calculatePrecisionOverExpected(found, expected) ==
    IF Len(expected) = 0
    THEN (IF Len(found) = 0 THEN FracInt(100) ELSE FracInt(0))
    ELSE IF Len(found) = 0 THEN FracInt(0)
    ELSE LET expectedSet == Range(expected)
             correctFound == Len(Filter(found, LAMBDA id : id \in expectedSet))
         IN  FracMulInt(Frac(correctFound, Len(expected)), 100)

\* Metrics.calculatePrecision(foundIds, expectedIds)
calculatePrecision(found, expected) ==
    IF Len(expected) = 0
    THEN (IF Len(found) = 0 THEN FracInt(100) ELSE FracInt(0))
    ELSE IF Len(found) = 0 THEN FracInt(0)
    ELSE LET expectedSet == Range(expected)
             correctFound == Len(Filter(found, LAMBDA id : id \in expectedSet))
         IN  FracMulInt(Frac(correctFound, Len(found)), 100)

-----------------------------------------------------------------------------
(* Validator *)

\* validateResults demanding that the found ids start with the expected ids
\* in order
validateResultsPrefix(found, expected) ==
    IF Len(expected) = 0
    THEN [isValid |-> TRUE, message |-> "No expectations to validate",
          ids |-> <<>>]
    ELSE IF Len(found) < Len(expected)
    THEN [isValid |-> FALSE, message |-> "Expected n results but found only k",
          ids |-> <<Len(expected), Len(found)>>]
    ELSE IF \E i \in 1..Len(expected) : found[i] # expected[i]
    THEN LET i == CHOOSE j \in 1..Len(expected) :
                      /\ found[j] # expected[j]
                      /\ \A k \in 1..(j - 1) : found[k] = expected[k]
         IN  [isValid |-> FALSE,
              message |-> "Expected ID x at position p, but found ID y",
              ids |-> <<expected[i]>>]
    ELSE [isValid |-> TRUE, message |-> "All n expected results match",
          ids |-> <<Len(expected)>>]

\* Validator.validateResults(foundIds, expectedIds).  The message is kept as
\* its template plus the ids that are joined into it.
validateResults(found, expected) ==
    IF Len(expected) = 0
    THEN [isValid |-> TRUE, message |-> "No expectations to validate",
          ids |-> <<>>]
    ELSE LET foundSet == Range(found)
             missingIds == Filter(expected, LAMBDA id : id \notin foundSet)
         IN  IF Len(missingIds) > 0
             THEN [isValid |-> FALSE,
                   message |-> "Expected IDs [..] not found in results",
                   ids |-> missingIds]
             ELSE [isValid |-> TRUE,
                   message |-> "All n expected results found in results",
                   ids |-> <<Len(expected)>>]

-----------------------------------------------------------------------------
(* Metrics: the accumulator.  Costs are integers counting 1e-9 dollars.    *)

\* parseFloat(parseFloat(x).toFixed(8)): round to eight decimals, i.e. to a
\* multiple of ten units
Round8(c) == ((c + 5) \div 10) * 10

\* addEvaluateMetrics putting the new outcome in front of the history
addEvaluateMetricsUnshift(history, metrics) ==
    LET roundedCost == Round8(metrics.cost)
    IN  <<[search        |-> metrics.search,
           tokens        |-> metrics.tokens,
           runtime       |-> metrics.runtime,
           cost          |-> roundedCost,
           recall        |-> metrics.recall,
           precision     |-> metrics.precision,
           expectedCount |-> metrics.expectedCount,
           foundCount    |-> metrics.foundCount,
           returnedCount |-> metrics.returnedCount]>> \o history

\* Metrics.addEvaluateMetrics(metrics): the history after the push
addEvaluateMetrics(history, metrics) ==
    LET roundedCost == Round8(metrics.cost)
    IN  Append(history,
               [search        |-> metrics.search,
                tokens        |-> metrics.tokens,
                runtime       |-> metrics.runtime,
                cost          |-> roundedCost,
                recall        |-> metrics.recall,
                precision     |-> metrics.precision,
                expectedCount |-> metrics.expectedCount,
                foundCount    |-> metrics.foundCount,
                returnedCount |-> metrics.returnedCount])

\* the pooled counts with an empty expectation counted as found but its
\* returnedCount added as it is
RECURSIVE microCountsRawReturned(_)
microCountsRawReturned(history) ==
    IF history = <<>>
    THEN [totalExpectedCount |-> 0, totalFoundCount |-> 0, totalReturnedCount |-> 0]
    ELSE LET acc == microCountsRawReturned(SubSeq(history, 1, Len(history) - 1))
             m == history[Len(history)]
         IN  IF m.expectedCount = 0
             THEN [totalExpectedCount |-> acc.totalExpectedCount + 1,
                   totalFoundCount |-> acc.totalFoundCount
                                       + (IF m.returnedCount = 0 THEN 1 ELSE 0),
                   totalReturnedCount |-> acc.totalReturnedCount + m.returnedCount]
             ELSE [totalExpectedCount |-> acc.totalExpectedCount + m.expectedCount,
                   totalFoundCount |-> acc.totalFoundCount + m.foundCount,
                   totalReturnedCount |-> acc.totalReturnedCount + m.returnedCount]

\* the micro-averaging forEach: the three pooled counts
RECURSIVE microCounts(_)
microCounts(history) ==
    IF history = <<>>
    THEN [totalExpectedCount |-> 0, totalFoundCount |-> 0, totalReturnedCount |-> 0]
    ELSE LET acc == microCounts(SubSeq(history, 1, Len(history) - 1))
             m == history[Len(history)]
         IN  IF m.expectedCount = 0
             THEN [totalExpectedCount |-> acc.totalExpectedCount + 1,
                   totalFoundCount |-> acc.totalFoundCount
                                       + (IF m.returnedCount = 0 THEN 1 ELSE 0),
                   totalReturnedCount |-> acc.totalReturnedCount
                                       + (IF m.returnedCount = 0 THEN 1
                                          ELSE m.returnedCount)]
             ELSE [totalExpectedCount |-> acc.totalExpectedCount + m.expectedCount,
                   totalFoundCount |-> acc.totalFoundCount + m.foundCount,
                   totalReturnedCount |-> acc.totalReturnedCount + m.returnedCount]

\* micro-averaging dividing the found total by the expected total for both
\* percentages
microAveragingSameDenominator(history) ==
    LET c == microCounts(history)
        r == IF c.totalExpectedCount > 0
             THEN FracMulInt(Frac(c.totalFoundCount, c.totalExpectedCount), 100)
             ELSE FracInt(0)
    IN  [recall |-> r, precision |-> r]

\* the micro-averaging block of getEvaluateTotals
microAveraging(history) ==
    LET c == microCounts(history)
    IN  [recall |-> IF c.totalExpectedCount > 0
                    THEN FracMulInt(Frac(c.totalFoundCount, c.totalExpectedCount), 100)
                    ELSE FracInt(0),
         precision |-> IF c.totalReturnedCount > 0
                       THEN FracMulInt(Frac(c.totalFoundCount, c.totalReturnedCount), 100)
                       ELSE FracInt(0)]

\* macro-averaging that leaves the empty-expectation outcomes out of the mean
macroAveragingSkipEmpty(history) ==
    LET kept == Filter(history, LAMBDA m : m.expectedCount > 0)
    IN  [recall |-> IF Len(kept) > 0
                    THEN FracDivInt(FracSumSeq(Map(kept, LAMBDA m : m.recall)),
                                    Len(kept))
                    ELSE FracInt(0),
         precision |-> IF Len(kept) > 0
                       THEN FracDivInt(FracSumSeq(Map(kept, LAMBDA m : m.precision)),
                                       Len(kept))
                       ELSE FracInt(0)]

\* the macro-averaging block of getEvaluateTotals
macroAveraging(history) ==
    [recall |-> IF Len(history) > 0
                THEN FracDivInt(FracSumSeq(Map(history, LAMBDA m : m.recall)),
                                Len(history))
                ELSE FracInt(0),
     precision |-> IF Len(history) > 0
                   THEN FracDivInt(FracSumSeq(Map(history, LAMBDA m : m.precision)),
                                   Len(history))
                   ELSE FracInt(0)]

\* the weighted sums with every outcome weighted by its expectedCount, an
\* empty expectation weighing nothing
RECURSIVE weightedSumsPlainWeight(_)
weightedSumsPlainWeight(history) ==
    IF history = <<>>
    THEN [weightedRecallSum |-> FracInt(0), weightedPrecisionSum |-> FracInt(0),
          weightedTotalExpected |-> 0]
    ELSE LET acc == weightedSumsPlainWeight(SubSeq(history, 1, Len(history) - 1))
             m == history[Len(history)]
         IN  [weightedRecallSum |->
                  FracAdd(acc.weightedRecallSum,
                          FracMulInt(m.recall, m.expectedCount)),
              weightedPrecisionSum |->
                  FracAdd(acc.weightedPrecisionSum,
                          FracMulInt(m.precision, m.expectedCount)),
              weightedTotalExpected |->
                  acc.weightedTotalExpected + m.expectedCount]

\* the weighted-averaging forEach: the two weighted sums and the total weight
RECURSIVE weightedSums(_)
weightedSums(history) ==
    IF history = <<>>
    THEN [weightedRecallSum |-> FracInt(0), weightedPrecisionSum |-> FracInt(0),
          weightedTotalExpected |-> 0]
    ELSE LET acc == weightedSums(SubSeq(history, 1, Len(history) - 1))
             m == history[Len(history)]
         IN  IF m.expectedCount = 0
             THEN [weightedRecallSum |->
                       FracAdd(acc.weightedRecallSum, FracMulInt(m.recall, 1)),
                   weightedPrecisionSum |->
                       FracAdd(acc.weightedPrecisionSum, FracMulInt(m.precision, 1)),
                   weightedTotalExpected |-> acc.weightedTotalExpected + 1]
             ELSE [weightedRecallSum |->
                       FracAdd(acc.weightedRecallSum,
                               FracMulInt(m.recall, m.expectedCount)),
                   weightedPrecisionSum |->
                       FracAdd(acc.weightedPrecisionSum,
                               FracMulInt(m.precision, m.expectedCount)),
                   weightedTotalExpected |->
                       acc.weightedTotalExpected + m.expectedCount]

\* the weighted-averaging block of getEvaluateTotals
weightedAveraging(history) ==
    LET w == weightedSums(history)
    IN  [recall |-> IF w.weightedTotalExpected > 0
                    THEN FracDivInt(w.weightedRecallSum, w.weightedTotalExpected)
                    ELSE FracInt(0),
         precision |-> IF w.weightedTotalExpected > 0
                       THEN FracDivInt(w.weightedPrecisionSum, w.weightedTotalExpected)
                       ELSE FracInt(0)]

\* Metrics.getEvaluateTotals()
getEvaluateTotals(history) ==
    LET totalTokens == SumSeq(Map(history, LAMBDA m : m.tokens))
        totalRuntime == SumSeq(Map(history, LAMBDA m : m.runtime))
        totalCost == SumSeq(Map(history, LAMBDA m : m.cost))
    IN  [totalTokens |-> totalTokens,
         totalRuntime |-> totalRuntime,
         totalCost |-> Round8(totalCost),
         queryCount |-> Len(history),
         microAveraging |-> microAveraging(history),
         macroAveraging |-> macroAveraging(history),
         weightedAveraging |-> weightedAveraging(history)]

-----------------------------------------------------------------------------
(* The arithmetic of JavaScript numbers (IEEE 754 binary64, round to       *)
(* nearest, ties to even), for the places where the order of the           *)
(* operations matters.  The exact fractions above leave rounding out; here *)
(* a non-negative double is [m, e], standing for m * 2^e, with m a natural *)
(* number of at most 53 bits written as a sequence of limbs in base 2^15,  *)
(* least significant first.  m is odd, or the number is zero: equal        *)
(* doubles have equal representations.  Every value of the accumulator is  *)
(* far from the subnormal and the overflow range.                          *)

LimbBase == 2^15
LimbBits == 15

\* bits of the significand of a binary64
SignificandBits == 53

\* a natural number without leading zero limbs
RECURSIVE BigTrim(_)
BigTrim(a) ==
    IF a = <<>> THEN <<>>
    ELSE IF a[Len(a)] = 0 THEN BigTrim(SubSeq(a, 1, Len(a) - 1))
    ELSE a

RECURSIVE BigFromInt(_)
BigFromInt(k) ==
    IF k = 0 THEN <<>> ELSE <<k % LimbBase>> \o BigFromInt(k \div LimbBase)

RECURSIVE BigAddCarry(_, _, _)
BigAddCarry(a, b, c) ==
    IF a = <<>> /\ b = <<>> THEN BigFromInt(c)
    ELSE LET x == IF a = <<>> THEN 0 ELSE a[1]
             y == IF b = <<>> THEN 0 ELSE b[1]
             t == x + y + c
         IN  <<t % LimbBase>> \o
             BigAddCarry(IF a = <<>> THEN <<>> ELSE Tail(a),
                         IF b = <<>> THEN <<>> ELSE Tail(b),
                         t \div LimbBase)

BigAdd(a, b) == BigAddCarry(a, b, 0)

\* a times k, for 0 <= k < 2^15
RECURSIVE BigMulCarry(_, _, _)
BigMulCarry(a, k, c) ==
    IF a = <<>> THEN BigFromInt(c)
    ELSE LET t == a[1] * k + c
         IN  <<t % LimbBase>> \o BigMulCarry(Tail(a), k, t \div LimbBase)

BigMulSmall(a, k) == BigTrim(BigMulCarry(a, k, 0))

\* quotient q (not trimmed) and remainder r of a by n, for 0 < n <= 2^15
RECURSIVE BigDivSmall(_, _)
BigDivSmall(a, n) ==
    IF a = <<>> THEN [q |-> <<>>, r |-> 0]
    ELSE LET high == BigDivSmall(Tail(a), n)
             cur == high.r * LimbBase + a[1]
         IN  [q |-> <<cur \div n>> \o high.q, r |-> cur % n]

\* a times 2^k
BigShiftLeft(a, k) ==
    IF a = <<>> THEN <<>>
    ELSE [i \in 1..(k \div LimbBits) |-> 0] \o BigMulSmall(a, 2^(k % LimbBits))

\* a divided by 2^k: the quotient q, and whether a bit that was 1 is lost
BigShiftRight(a, k) ==
    LET limbs == k \div LimbBits
    IN  IF limbs >= Len(a) THEN [q |-> <<>>, lost |-> a # <<>>]
        ELSE LET d == BigDivSmall(SubSeq(a, limbs + 1, Len(a)), 2^(k % LimbBits))
             IN  [q |-> BigTrim(d.q),
                  lost |-> d.r # 0 \/ \E i \in 1..limbs : a[i] # 0]

RECURSIVE IntBitLength(_)
IntBitLength(x) == IF x = 0 THEN 0 ELSE 1 + IntBitLength(x \div 2)

BigBitLength(a) ==
    IF a = <<>> THEN 0 ELSE LimbBits * (Len(a) - 1) + IntBitLength(a[Len(a)])

BigIsOdd(a) == a # <<>> /\ a[1] % 2 = 1

\* the double zero
DoubleZero == [m |-> <<>>, e |-> 0]

\* m * 2^e with the trailing zero bits of m moved into the exponent
RECURSIVE DoubleCanonical(_, _)
DoubleCanonical(m, e) ==
    IF m = <<>> THEN DoubleZero
    ELSE IF BigIsOdd(m) THEN [m |-> m, e |-> e]
    ELSE IF m[1] = 0 THEN DoubleCanonical(Tail(m), e + LimbBits)
    ELSE DoubleCanonical(BigShiftRight(m, 1).q, e + 1)

\* the double nearest to (m + f) * 2^e, ties to even, where 0 <= f < 1 and
\* inexact says whether f > 0; m has more than 53 bits whenever inexact
DoubleRound(m, e, inexact) ==
    LET length == BigBitLength(m)
    IN  IF length <= SignificandBits THEN DoubleCanonical(m, e)
        ELSE LET drop == length - SignificandBits
                 oneMore == BigShiftRight(m, drop - 1)
                 half == BigIsOdd(oneMore.q)
                 kept == BigShiftRight(oneMore.q, 1).q
                 below == oneMore.lost \/ inexact
                 up == half /\ (below \/ BigIsOdd(kept))
             IN  DoubleCanonical(IF up THEN BigAdd(kept, <<1>>) ELSE kept,
                                 e + drop)

\* the number k, 0 <= k < 2^31, as a double
DoubleFromInt(k) == DoubleCanonical(BigFromInt(k), 0)

\* x + y
DoubleAdd(x, y) ==
    IF x.m = <<>> THEN y
    ELSE IF y.m = <<>> THEN x
    ELSE LET e == Min(x.e, y.e)
         IN  DoubleRound(BigAdd(BigShiftLeft(x.m, x.e - e),
                                BigShiftLeft(y.m, y.e - e)), e, FALSE)

\* x * k, for an integer 0 <= k < 2^15
DoubleMulInt(x, k) == DoubleRound(BigMulSmall(x.m, k), x.e, FALSE)

\* x / n, for an integer 0 < n < 2^15
DoubleDivInt(x, n) ==
    IF x.m = <<>> THEN DoubleZero
    ELSE LET d == BigDivSmall(BigShiftLeft(x.m, 70), n)
         IN  DoubleRound(BigTrim(d.q), x.e - 70, d.r # 0)

\* (k / n) * 100 for integers k >= 0, n > 0
DoublePercent(k, n) == DoubleMulInt(DoubleDivInt(DoubleFromInt(k), n), 100)

\* Array.prototype.reduce((sum, x) => sum + x, 0) on doubles, left to right
RECURSIVE DoubleSumSeq(_)
DoubleSumSeq(s) ==
    IF s = <<>> THEN DoubleZero
    ELSE DoubleAdd(DoubleSumSeq(SubSeq(s, 1, Len(s) - 1)), s[Len(s)])

\* the micro-averaging block of getEvaluateTotals, in doubles
microAveragingDouble(history) ==
    LET c == microCounts(history)
    IN  [recall |-> IF c.totalExpectedCount > 0
                    THEN DoublePercent(c.totalFoundCount, c.totalExpectedCount)
                    ELSE DoubleZero,
         precision |-> IF c.totalReturnedCount > 0
                       THEN DoublePercent(c.totalFoundCount, c.totalReturnedCount)
                       ELSE DoubleZero]

\* the macro-averaging block of getEvaluateTotals, in doubles
macroAveragingDouble(history) ==
    [recall |-> IF Len(history) > 0
                THEN DoubleDivInt(DoubleSumSeq(Map(history, LAMBDA m : m.recall)),
                                  Len(history))
                ELSE DoubleZero,
     precision |-> IF Len(history) > 0
                   THEN DoubleDivInt(DoubleSumSeq(Map(history,
                                                      LAMBDA m : m.precision)),
                                     Len(history))
                   ELSE DoubleZero]

\* the weighted-averaging forEach, in doubles
RECURSIVE weightedSumsDouble(_)
weightedSumsDouble(history) ==
    IF history = <<>>
    THEN [weightedRecallSum |-> DoubleZero, weightedPrecisionSum |-> DoubleZero,
          weightedTotalExpected |-> 0]
    ELSE LET acc == weightedSumsDouble(SubSeq(history, 1, Len(history) - 1))
             m == history[Len(history)]
             weight == IF m.expectedCount = 0 THEN 1 ELSE m.expectedCount
         IN  [weightedRecallSum |->
                  DoubleAdd(acc.weightedRecallSum, DoubleMulInt(m.recall, weight)),
              weightedPrecisionSum |->
                  DoubleAdd(acc.weightedPrecisionSum,
                            DoubleMulInt(m.precision, weight)),
              weightedTotalExpected |-> acc.weightedTotalExpected + weight]

\* the weighted-averaging block of getEvaluateTotals, in doubles
weightedAveragingDouble(history) ==
    LET w == weightedSumsDouble(history)
    IN  [recall |-> IF w.weightedTotalExpected > 0
                    THEN DoubleDivInt(w.weightedRecallSum, w.weightedTotalExpected)
                    ELSE DoubleZero,
         precision |-> IF w.weightedTotalExpected > 0
                       THEN DoubleDivInt(w.weightedPrecisionSum,
                                         w.weightedTotalExpected)
                       ELSE DoubleZero]

\* Metrics.getEvaluateTotals() with the percentages computed in doubles
getEvaluateTotalsDouble(history) ==
    LET totalTokens == SumSeq(Map(history, LAMBDA m : m.tokens))
        totalRuntime == SumSeq(Map(history, LAMBDA m : m.runtime))
        totalCost == SumSeq(Map(history, LAMBDA m : m.cost))
    IN  [totalTokens |-> totalTokens,
         totalRuntime |-> totalRuntime,
         totalCost |-> Round8(totalCost),
         queryCount |-> Len(history),
         microAveraging |-> microAveragingDouble(history),
         macroAveraging |-> macroAveragingDouble(history),
         weightedAveraging |-> weightedAveragingDouble(history)]

-----------------------------------------------------------------------------
(* Metrics: the generation list and the complete report *)

\* Metrics.addGenerateMetrics(metrics): the list after the push
addGenerateMetrics(list, metrics) ==
    Append(list, [id |-> metrics.id, title |-> metrics.title,
                  tokens |-> metrics.tokens, runtime |-> metrics.runtime,
                  cost |-> Round8(metrics.cost)])

\* Metrics.getGenerateTotals()
getGenerateTotals(list) ==
    [totalTokens |-> SumSeq(Map(list, LAMBDA m : m.tokens)),
     totalRuntime |-> SumSeq(Map(list, LAMBDA m : m.runtime)),
     totalCost |-> Round8(SumSeq(Map(list, LAMBDA m : m.cost))),
     documentCount |-> Len(list)]

\* Metrics.getAllMetrics()
getAllMetrics(generated, evaluated) ==
    [generate |-> [items |-> generated, totals |-> getGenerateTotals(generated)],
     evaluate |-> [items |-> evaluated, totals |-> getEvaluateTotals(evaluated)]]

-----------------------------------------------------------------------------
(* Metrics: reranker bookkeeping *)

\* Metrics.addRerankerMetrics(metrics): the list after the push
addRerankerMetrics(list, metrics) == Append(list, metrics)

-----------------------------------------------------------------------------
(* Reranker helpers.  A result is [id, score]; title and description are   *)
(* carried along untouched by the code and are left out.                   *)

\* calculateRerankerCost(vendor, queryCount, documentCount): 0.05 dollars per
\* 1000 searches is 50000 units of 1e-9 dollars per search
calculateRerankerCost(vendor, queryCount, documentCount) ==
    IF vendor = "voyageai" THEN queryCount * documentCount * 50000 ELSE 0

\* createRerankerMetrics({vendor, model, query, documentsCount, runtime, cost})
createRerankerMetrics(vendor, model, q, documentsCount, runtime, cost) ==
    [vendor |-> vendor, model |-> model, query |-> q,
     documentsCount |-> documentsCount, runtime |-> runtime,
     cost |-> Round8(cost)]

\* the partition of the reranked results keyed on the similarity score they
\* had before reranking
separateRerankedByOriginalScore(reranked, originalResults, ms) ==
    [aboveThreshold |-> Filter(reranked, LAMBDA r : r.originalScore >= ms),
     belowThreshold |->
         Slice0(Filter(reranked, LAMBDA r : ~(r.originalScore >= ms)), 3)]

\* separateRerankedResults(rerankedResults, originalResults, minSimilarity)
separateRerankedResults(reranked, originalResults, ms) ==
    [aboveThreshold |-> Filter(reranked, LAMBDA r : r.score >= ms),
     belowThreshold |->
         Slice0(Filter(reranked, LAMBDA r : ~(r.score >= ms)), 3)]

\* RerankerService.rerank: the mapping of the API's data entries
\* {index, relevance_score} back onto the documents sent
rerankMapping(documents, data) ==
    [i \in 1..Len(data) |->
        [id            |-> documents[data[i].index + 1].id,
         score         |-> data[i].relevance_score,
         originalScore |-> documents[data[i].index + 1].score,
         reranked      |-> TRUE]]

\* RerankerService.rerank(query, documents, topK) when the API answers data
rerank(q, documents, data) ==
    IF q = "" \/ Len(documents) = 0 THEN <<>>
    ELSE rerankMapping(documents, data)

-----------------------------------------------------------------------------
(* EmbeddingsEvaluator.search: the pieces of its body *)

\* the default of the topK parameter, and the value runEvaluation passes
DefaultTopK == 3

\* number of documents sent to the reranker at most
RerankInputLimit == 10

\* number of below-threshold results kept for display
BelowThresholdLimit == 3

\* a threshold that is never read from the configuration
effectiveMinSimilarityIgnored(config) == 0

\* const minSimilarity = this.modelConfig?.minSimilarity || 0.0
effectiveMinSimilarity(config) ==
    IF config.minSimilarity = None \/ The(config.minSimilarity) = 0
    THEN 0
    ELSE The(config.minSimilarity)

\* const searchLimit = this.rerankerService ? Math.max(topK * 10, 20) : topK * 3
computeSearchLimit(hasReranker, k) ==
    IF hasReranker THEN Max(k * 10, 20) ELSE k * 3

\* the {id, score, title, description} object built from an index result
formatResult(r) == [id |-> r.id, score |-> r.score]

\* the above-threshold filter with a strict comparison
aboveThresholdStrict(res, ms) ==
    Map(Filter(res, LAMBDA r : r.score > ms), formatResult)

\* results.filter(result => result.score >= minSimilarity), formatted
aboveThresholdOf(res, ms) ==
    Map(Filter(res, LAMBDA r : r.score >= ms), formatResult)

\* results.filter(result => result.score < minSimilarity).slice(0, 3), formatted
belowThresholdOf(res, ms) ==
    Map(Slice0(Filter(res, LAMBDA r : r.score < ms), BelowThresholdLimit),
        formatResult)

\* every formatted result handed to the reranker, however many there are
rerankerInputAll(res) == Map(res, formatResult)

\* allResultsFormatted.slice(0, 10)
rerankerInputOf(res) == Slice0(Map(res, formatResult), RerankInputLimit)

\* a catch block that falls back to every formatted result it was given,
\* the below-threshold ones included
rerankCatchMergesBelow(candidates, below, cost, rtokens) ==
    [candidateResults |-> candidates \o below, belowThresholdTop3 |-> <<>>,
     rerankerCost |-> 0, rerankerTokens |-> rtokens]

\* the catch block of the rerank step: what it leaves in the locals
rerankCatch(candidates, below, cost, rtokens) ==
    [candidateResults |-> candidates, belowThresholdTop3 |-> below,
     rerankerCost |-> 0, rerankerTokens |-> rtokens]

\* final results that are never cut to topK
finalResultsNeverCut(candidates, ms, k) == candidates

\* final results cut to topK whatever the threshold
finalResultsAlwaysTopK(candidates, ms, k) == Slice0(candidates, k)

\* const finalResults = minSimilarity > 0 ? candidateResults
\*                                        : candidateResults.slice(0, topK)
finalResultsOf(candidates, ms, k) ==
    IF ms > 0 THEN candidates ELSE Slice0(candidates, k)

\* EmbeddingService.calculateCost(tokens); modelConfig.cost is kept in units
\* of 1e-9 dollars per token (dollars per million tokens times 1000)
calculateCost(config, tokenCount) == tokenCount * config.cost

-----------------------------------------------------------------------------
(* Inputs of the evaluation: configuration, eval items, what the external  *)
(* services answer                                                         *)

\* largest number of items in the vector index
MaxResults == 5

\* ids of the index items in the order the index returns them
ResultIds == <<2, 1, 3, 4, 5, 6, 7, 8, 9, 10, 11, 12>>

\* similarity scores, in tenths
Scores == {-2, 2, 5, 9}

\* relevance scores of the reranker, in tenths
RelevanceScores == {2, 9}

\* values of modelConfig.minSimilarity, in tenths; None is an absent key
MinSimilarityConfigs == {None, Some(-1), Some(4), Some(5)}

ModelConfigs == {[minSimilarity |-> ms, cost |-> 2] : ms \in MinSimilarityConfigs}

\* items of eval.json; expected may be absent, and is stored as it is written
EvalItems == {[search |-> "python", expected |-> None],
              [search |-> "python", expected |-> Some(<<2>>)],
              [search |-> "python", expected |-> Some(<<3, 2>>)],
              [search |-> "python", expected |-> Some(<<2, 2>>)]}

\* token counts reported by the embedding API
TokenCounts == {7}

\* elapsed milliseconds read off Date.now()
Runtimes == {120}

\* non-increasing sequences of length n over S
RECURSIVE NonIncreasing(_, _)
NonIncreasing(S, n) ==
    IF n = 0 THEN {<<>>}
    ELSE UNION {{Append(f, x) : x \in {y \in S : n = 1 \/ y <= f[n - 1]}} :
                   f \in NonIncreasing(S, n - 1)}

\* what index.queryItems(vector, k) may return: the min(k, indexSize) nearest
\* items, most similar first
QueryItemsResults(k, size) ==
    LET n == Min(k, size)
    IN  {[i \in 1..n |-> [id |-> ResultIds[i], score |-> f[i]]] :
            f \in NonIncreasing(Scores, n)}

\* answers of the rerank call that are objects search cannot partition: one
\* without a results property, one whose results are not an array of
\* results; both carry the tokens of the API
UnusableRerankerResponses ==
    {[hasResults |-> FALSE, tokens |-> 12], [hasResults |-> TRUE, tokens |-> 12]}

\* apiTokens after the three branches on the format of the response
apiTokensOf(response) ==
    IF response.hasResults THEN response.tokens ELSE 0

\* the data array of a rerank API answer for n documents: all n documents,
\* in the order sent or reversed, most relevant first
RerankApiData(n) ==
    {[i \in 1..n |-> [index |-> IF reversed THEN n - i ELSE i - 1,
                      relevance_score |-> f[i]]] :
        reversed \in BOOLEAN, f \in NonIncreasing(RelevanceScores, n)}

-----------------------------------------------------------------------------
(* EmbeddingsEvaluator: runEvaluation and search as steps *)

EvaluatorIdle ==
    /\ modelConfig = [minSimilarity |-> None, cost |-> 0]
    /\ rerankerService = FALSE
    /\ indexSize = 0
    /\ evalData = <<>>
    /\ caller = "none"
    /\ pc = "idle"
    /\ error = None
    /\ query = ""
    /\ topK = 0
    /\ tokens = 0
    /\ searchLimit = 0
    /\ results = <<>>
    /\ minSimilarity = 0
    /\ candidateResults = <<>>
    /\ belowThresholdTop3 = <<>>
    /\ rerankerCost = 0
    /\ rerankerTokens = 0
    /\ rerankerInput = <<>>
    /\ rerankedResults = <<>>
    /\ rerankStatus = "none"
    /\ searchResponse = None
    /\ evalIndex = 0
    /\ runResults = <<>>
    /\ expectedFoundCount = 0
    /\ rerankerMetrics = <<>>

\* neither the evaluator nor any other component is in use
PipelineIdle == ComponentsIdle /\ EvaluatorIdle

\* State after construction and initialize(): configuration loaded, index
\* present, nothing run yet
Init ==
    /\ ComponentsIdle
    /\ modelConfig \in ModelConfigs
    /\ rerankerService \in BOOLEAN
    /\ indexSize \in 0..MaxResults
    /\ \/ caller = "runEvaluation" /\ evalData \in {<<item>> : item \in EvalItems}
       \/ caller = "direct" /\ evalData = <<>>
    /\ pc = "start"
    /\ error = None
    /\ query = ""
    /\ topK = 0
    /\ tokens = 0
    /\ searchLimit = 0
    /\ results = <<>>
    /\ minSimilarity = 0
    /\ candidateResults = <<>>
    /\ belowThresholdTop3 = <<>>
    /\ rerankerCost = 0
    /\ rerankerTokens = 0
    /\ rerankerInput = <<>>
    /\ rerankedResults = <<>>
    /\ rerankStatus = "none"
    /\ searchResponse = None
    /\ evalIndex = 0
    /\ runResults = <<>>
    /\ foundIds = <<>>
    /\ expectedIds = <<>>
    /\ recall = None
    /\ precision = None
    /\ expectedFoundCount = 0
    /\ validation = None
    /\ evaluateMetrics = <<>>
    /\ rerankerMetrics = <<>>
    /\ totals = None

\* the locals of a fresh call search(q, k)
EnterSearch(q, k) ==
    /\ query' = q
    /\ topK' = k
    /\ tokens' = 0
    /\ searchLimit' = 0
    /\ results' = <<>>
    /\ minSimilarity' = 0
    /\ candidateResults' = <<>>
    /\ belowThresholdTop3' = <<>>
    /\ rerankerCost' = 0
    /\ rerankerTokens' = 0
    /\ rerankerInput' = <<>>
    /\ rerankedResults' = <<>>
    /\ rerankStatus' = "none"
    /\ searchResponse' = None
    /\ pc' = "embedding"

\* runEvaluation up to the loop: loadEvalData, results = []
RunEvaluationBegin ==
    /\ pc = "start"
    /\ caller = "runEvaluation"
    /\ evalIndex' = 1
    /\ runResults' = <<>>
    /\ pc' = "loop"
    /\ UNCHANGED <<configVars, error, searchVars, scoreVars, evaluateMetrics,
                   rerankerMetrics, totals>>

\* the head of the for-of loop: the next item's search(evalItem.search, 3)
\* starts
LoopNextQuery ==
    /\ pc = "loop"
    /\ evalIndex <= Len(evalData)
    /\ EnterSearch(evalData[evalIndex].search, DefaultTopK)
    /\ UNCHANGED <<configVars, error, evalIndex, runResults, scoreVars,
                   evaluateMetrics, rerankerMetrics, totals>>

\* after the loop: const totals = this.metrics.getEvaluateTotals()
LoopExit ==
    /\ pc = "loop"
    /\ evalIndex > Len(evalData)
    /\ totals' = Some(getEvaluateTotals(evaluateMetrics))
    /\ pc' = "done"
    /\ UNCHANGED <<configVars, error, searchVars, evalIndex, runResults,
                   scoreVars, evaluateMetrics, rerankerMetrics>>

\* search(query, topK) called by another caller than runEvaluation
DirectSearch ==
    /\ pc = "start"
    /\ caller = "direct"
    /\ \E k \in 1..DefaultTopK : EnterSearch("python", k)
    /\ UNCHANGED <<configVars, error, evalIndex, runResults, scoreVars,
                   evaluateMetrics, rerankerMetrics, totals>>

\* await this.embeddingService.generateEmbedding(query, 'query') returns
EmbedQuery ==
    /\ pc = "embedding"
    /\ \E t \in TokenCounts : tokens' = t
    /\ pc' = "retrieving"
    /\ UNCHANGED <<configVars, error, query, topK, searchLimit, results,
                   minSimilarity, candidateResults, belowThresholdTop3,
                   rerankerCost, rerankerTokens, rerankLocals, rerankStatus,
                   searchResponse, evalIndex, runResults, scoreVars,
                   evaluateMetrics, rerankerMetrics, totals>>

\* generateEmbedding throws: search logs and rethrows, runEvaluation does not
\* catch
EmbedFails ==
    /\ pc = "embedding"
    /\ error' = Some("embedding failed")
    /\ pc' = "failed"
    /\ UNCHANGED <<configVars, searchVars, evalIndex, runResults, scoreVars,
                   evaluateMetrics, rerankerMetrics, totals>>

\* await this.index.queryItems(queryEmbedding, searchLimit) returns; the
\* threshold filter and the formatting that follow it
RetrieveAndFilter ==
    /\ pc = "retrieving"
    /\ LET limit == computeSearchLimit(rerankerService, topK)
           ms == effectiveMinSimilarity(modelConfig)
       IN  /\ searchLimit' = limit
           /\ minSimilarity' = ms
           /\ \E res \in QueryItemsResults(limit, indexSize) :
                 /\ results' = res
                 /\ candidateResults' = aboveThresholdOf(res, ms)
                 /\ belowThresholdTop3' = belowThresholdOf(res, ms)
    /\ rerankerCost' = 0
    /\ rerankerTokens' = 0
    /\ pc' = "reranking"
    /\ UNCHANGED <<configVars, error, query, topK, tokens, rerankLocals,
                   rerankStatus, searchResponse, evalIndex, runResults,
                   scoreVars, evaluateMetrics, rerankerMetrics, totals>>

\* a failing queryItems that leaves an empty outcome in the history before
\* the error is rethrown
RetrieveFailsRecordsOutcome ==
    /\ pc = "retrieving"
    /\ searchLimit' = computeSearchLimit(rerankerService, topK)
    /\ evaluateMetrics' =
           addEvaluateMetrics(evaluateMetrics,
               [search |-> query, tokens |-> tokens, runtime |-> 0, cost |-> 0,
                recall |-> FracInt(0), precision |-> FracInt(0),
                expectedCount |-> 0, foundCount |-> 0, returnedCount |-> 0])
    /\ error' = Some("index query failed")
    /\ pc' = "failed"
    /\ UNCHANGED <<configVars, query, topK, tokens, results, minSimilarity,
                   candidateResults, belowThresholdTop3, rerankerCost,
                   rerankerTokens, rerankLocals, rerankStatus, searchResponse,
                   evalIndex, runResults, scoreVars, rerankerMetrics, totals>>

\* queryItems throws: search logs and rethrows
RetrieveFails ==
    /\ pc = "retrieving"
    /\ searchLimit' = computeSearchLimit(rerankerService, topK)
    /\ error' = Some("index query failed")
    /\ pc' = "failed"
    /\ UNCHANGED <<configVars, query, topK, tokens, results, minSimilarity,
                   candidateResults, belowThresholdTop3, rerankerCost,
                   rerankerTokens, rerankLocals, rerankStatus, searchResponse,
                   evalIndex, runResults, scoreVars, evaluateMetrics,
                   rerankerMetrics, totals>>

\* no reranker configured, or nothing retrieved: the rerank block is skipped
RerankSkipped ==
    /\ pc = "reranking"
    /\ ~(rerankerService /\ Len(results) > 0)
    /\ rerankStatus' = "skipped"
    /\ pc' = "shaping"
    /\ UNCHANGED <<configVars, error, query, topK, tokens, searchLimit, results,
                   minSimilarity, candidateResults, belowThresholdTop3,
                   rerankerCost, rerankerTokens, rerankLocals, searchResponse,
                   evalIndex, runResults, scoreVars, evaluateMetrics,
                   rerankerMetrics, totals>>

\* the try block runs to its end: rerank answers, cost and metrics are
\* tracked, the reranked partition replaces the similarity-based one
RerankSucceeds ==
    /\ pc = "reranking"
    /\ rerankerService /\ Len(results) > 0
    /\ LET input == rerankerInputOf(results)
       IN  \E data \in RerankApiData(Len(input)), rt \in Runtimes :
             LET reranked == rerank(query, input, data)
                 apiTokens == 0
                 cost == calculateRerankerCost("voyageai", 1, Len(input))
                 separated == separateRerankedResults(reranked,
                                                      candidateResults,
                                                      minSimilarity)
             IN  /\ rerankerInput' = input
                 /\ rerankedResults' = reranked
                 /\ rerankerTokens' = IF apiTokens > 0 THEN apiTokens ELSE 0
                 /\ rerankerCost' = cost
                 /\ rerankerMetrics' =
                        addRerankerMetrics(rerankerMetrics,
                            createRerankerMetrics("voyageai", "rerank-2.5", query,
                                                  Len(input), rt, cost))
                 /\ candidateResults' = separated.aboveThreshold
                 /\ belowThresholdTop3' = separated.belowThreshold
    /\ rerankStatus' = "reranked"
    /\ pc' = "shaping"
    /\ UNCHANGED <<configVars, error, query, topK, tokens, searchLimit, results,
                   minSimilarity, searchResponse, evalIndex, runResults,
                   scoreVars, evaluateMetrics, totals>>

\* this.rerankerService.rerank throws (request, API error, bad answer): the
\* catch block logs, resets the cost and search goes on
RerankFails ==
    /\ pc = "reranking"
    /\ rerankerService /\ Len(results) > 0
    /\ LET after == rerankCatch(candidateResults, belowThresholdTop3,
                                rerankerCost, rerankerTokens)
       IN  /\ candidateResults' = after.candidateResults
           /\ belowThresholdTop3' = after.belowThresholdTop3
           /\ rerankerCost' = after.rerankerCost
           /\ rerankerTokens' = after.rerankerTokens
    /\ rerankerInput' = rerankerInputOf(results)
    /\ rerankedResults' = <<>>
    /\ rerankStatus' = "failed"
    /\ pc' = "shaping"
    /\ UNCHANGED <<configVars, error, query, topK, tokens, searchLimit, results,
                   minSimilarity, searchResponse, evalIndex, runResults,
                   scoreVars, evaluateMetrics, rerankerMetrics, totals>>

\* this.rerankerService.rerank answers an object that search cannot
\* partition: tokens, cost and the reranker metrics are tracked, then
\* separateRerankedResults throws and the catch block runs
RerankProcessingFails ==
    /\ pc = "reranking"
    /\ rerankerService /\ Len(results) > 0
    /\ LET input == rerankerInputOf(results)
       IN  \E response \in UnusableRerankerResponses, rt \in Runtimes :
             LET tracked == apiTokensOf(response)
                 cost == calculateRerankerCost("voyageai", 1, Len(input))
                 after == rerankCatch(candidateResults, belowThresholdTop3, cost,
                                      IF tracked > 0 THEN tracked ELSE 0)
             IN  /\ rerankerInput' = input
                 /\ rerankerMetrics' =
                        addRerankerMetrics(rerankerMetrics,
                            createRerankerMetrics("voyageai", "rerank-2.5", query,
                                                  Len(input), rt, cost))
                 /\ candidateResults' = after.candidateResults
                 /\ belowThresholdTop3' = after.belowThresholdTop3
                 /\ rerankerCost' = after.rerankerCost
                 /\ rerankerTokens' = after.rerankerTokens
    /\ rerankedResults' = <<>>
    /\ rerankStatus' = "failed"
    /\ pc' = "shaping"
    /\ UNCHANGED <<configVars, error, query, topK, tokens, searchLimit, results,
                   minSimilarity, searchResponse, evalIndex, runResults,
                   scoreVars, evaluateMetrics, totals>>

\* the rest of search: final results, costs, runtime, the returned object
ShapeAndReturn ==
    /\ pc = "shaping"
    /\ \E rt \in Runtimes :
         LET finalResults == finalResultsOf(candidateResults, minSimilarity, topK)
             embeddingCost == calculateCost(modelConfig, tokens)
             totalCost == embeddingCost + rerankerCost
         IN  searchResponse' =
                 Some([results |-> finalResults,
                       belowThresholdResults |-> belowThresholdTop3,
                       metrics |-> [tokens |-> tokens,
                                    rerankerTokens |-> rerankerTokens,
                                    runtime |-> rt,
                                    embeddingCost |-> embeddingCost,
                                    rerankerCost |-> rerankerCost,
                                    totalCost |-> totalCost]])
    /\ pc' = IF caller = "runEvaluation" THEN "scoring" ELSE "returned"
    /\ UNCHANGED <<configVars, error, query, topK, tokens, searchLimit, results,
                   minSimilarity, candidateResults, belowThresholdTop3,
                   rerankerCost, rerankerTokens, rerankLocals, rerankStatus,
                   evalIndex, runResults, scoreVars, evaluateMetrics,
                   rerankerMetrics, totals>>

\* the scoring step counting the expected ids instead of those found
ScoreQueryCountsExpected ==
    /\ pc = "scoring"
    /\ LET searchResults == The(searchResponse).results
           found == Map(searchResults, LAMBDA r : r.id)
           item == evalData[evalIndex]
           expected == IF item.expected = None THEN <<>> ELSE The(item.expected)
       IN  /\ foundIds' = found
           /\ expectedIds' = expected
           /\ recall' = Some(calculateRecall(found, expected))
           /\ precision' = Some(calculatePrecision(found, expected))
           /\ expectedFoundCount' = Len(expected)
    /\ validation' = None
    /\ pc' = "recording"
    /\ UNCHANGED <<configVars, error, searchVars, evalIndex, runResults,
                   evaluateMetrics, rerankerMetrics, totals>>

\* runEvaluation after search returned: found and expected ids, recall,
\* precision, the number of expected ids found
ScoreQuery ==
    /\ pc = "scoring"
    /\ LET searchResults == The(searchResponse).results
           found == Map(searchResults, LAMBDA r : r.id)
           item == evalData[evalIndex]
           expected == IF item.expected = None THEN <<>> ELSE The(item.expected)
           foundSet == Range(found)
       IN  /\ foundIds' = found
           /\ expectedIds' = expected
           /\ recall' = Some(calculateRecall(found, expected))
           /\ precision' = Some(calculatePrecision(found, expected))
           /\ expectedFoundCount' = Len(Filter(expected, LAMBDA id : id \in foundSet))
    /\ validation' = None
    /\ pc' = "recording"
    /\ UNCHANGED <<configVars, error, searchVars, evalIndex, runResults,
                   evaluateMetrics, rerankerMetrics, totals>>

\* a loop body that goes to the next item right after recording
RecordQuerySkipsValidation ==
    /\ pc = "recording"
    /\ LET searchMetrics == The(searchResponse).metrics
       IN  evaluateMetrics' =
               addEvaluateMetrics(evaluateMetrics,
                   [search         |-> evalData[evalIndex].search,
                    tokens         |-> searchMetrics.tokens,
                    rerankerTokens |-> searchMetrics.rerankerTokens,
                    runtime        |-> searchMetrics.runtime,
                    cost           |-> searchMetrics.totalCost,
                    embeddingCost  |-> searchMetrics.embeddingCost,
                    rerankerCost   |-> searchMetrics.rerankerCost,
                    recall         |-> The(recall),
                    precision      |-> The(precision),
                    expectedCount  |-> Len(expectedIds),
                    foundCount     |-> expectedFoundCount,
                    returnedCount  |-> Len(foundIds)])
    /\ evalIndex' = evalIndex + 1
    /\ pc' = "loop"
    /\ UNCHANGED <<configVars, error, searchVars, runResults, scoreVars,
                   rerankerMetrics, totals>>

\* this.metrics.addEvaluateMetrics({...})
RecordQuery ==
    /\ pc = "recording"
    /\ LET searchMetrics == The(searchResponse).metrics
       IN  evaluateMetrics' =
               addEvaluateMetrics(evaluateMetrics,
                   [search         |-> evalData[evalIndex].search,
                    tokens         |-> searchMetrics.tokens,
                    rerankerTokens |-> searchMetrics.rerankerTokens,
                    runtime        |-> searchMetrics.runtime,
                    cost           |-> searchMetrics.totalCost,
                    embeddingCost  |-> searchMetrics.embeddingCost,
                    rerankerCost   |-> searchMetrics.rerankerCost,
                    recall         |-> The(recall),
                    precision      |-> The(precision),
                    expectedCount  |-> Len(expectedIds),
                    foundCount     |-> expectedFoundCount,
                    returnedCount  |-> Len(foundIds)])
    /\ pc' = "validating"
    /\ UNCHANGED <<configVars, error, searchVars, evalIndex, runResults,
                   scoreVars, rerankerMetrics, totals>>

\* Validator.validateResults, the display, results.push({...}), the delay
\* between searches
ValidateQuery ==
    /\ pc = "validating"
    /\ LET v == validateResults(foundIds, expectedIds)
           searchMetrics == The(searchResponse).metrics
       IN  /\ validation' = Some(v)
           /\ runResults' =
                  Append(runResults,
                      [search     |-> evalData[evalIndex].search,
                       expected   |-> expectedIds,
                       found      |-> foundIds,
                       validation |-> v,
                       results    |-> The(searchResponse).results,
                       metrics    |-> [tokens         |-> searchMetrics.tokens,
                                       rerankerTokens |-> searchMetrics.rerankerTokens,
                                       runtime        |-> searchMetrics.runtime,
                                       cost           |-> searchMetrics.totalCost,
                                       embeddingCost  |-> searchMetrics.embeddingCost,
                                       rerankerCost   |-> searchMetrics.rerankerCost,
                                       recall         |-> The(recall),
                                       precision      |-> The(precision)]])
    /\ evalIndex' = evalIndex + 1
    /\ pc' = "loop"
    /\ UNCHANGED <<configVars, error, searchVars, foundIds, expectedIds, recall,
                   precision, expectedFoundCount, evaluateMetrics, rerankerMetrics,
                   totals>>

Next ==
    \/ RunEvaluationBegin
    \/ LoopNextQuery
    \/ LoopExit
    \/ DirectSearch
    \/ EmbedQuery
    \/ EmbedFails
    \/ RetrieveAndFilter
    \/ RetrieveFails
    \/ RerankSkipped
    \/ RerankSucceeds
    \/ RerankFails
    \/ RerankProcessingFails
    \/ ShapeAndReturn
    \/ ScoreQuery
    \/ RecordQuery
    \/ ValidateQuery

Spec == Init /\ [][Next]_vars

-----------------------------------------------------------------------------
(* Specification of search called on its own (query mode) over an index    *)
(* holding more items than the reranker is sent.                           *)

\* largest number of items in the index searched on its own
MaxLargeIndex == 11

\* configurations of the model searched on its own
SearchConfigs == {[minSimilarity |-> ms, cost |-> 2] : ms \in {None, Some(4)}}

\* the evaluator right after initialize(): no call made yet
NothingRunYet ==
    /\ pc = "start"
    /\ error = None
    /\ query = ""
    /\ topK = 0
    /\ tokens = 0
    /\ searchLimit = 0
    /\ results = <<>>
    /\ minSimilarity = 0
    /\ candidateResults = <<>>
    /\ belowThresholdTop3 = <<>>
    /\ rerankerCost = 0
    /\ rerankerTokens = 0
    /\ rerankerInput = <<>>
    /\ rerankedResults = <<>>
    /\ rerankStatus = "none"
    /\ searchResponse = None
    /\ evalIndex = 0
    /\ runResults = <<>>
    /\ foundIds = <<>>
    /\ expectedIds = <<>>
    /\ recall = None
    /\ precision = None
    /\ expectedFoundCount = 0
    /\ validation = None
    /\ evaluateMetrics = <<>>
    /\ rerankerMetrics = <<>>
    /\ totals = None

InitSearch ==
    /\ ComponentsIdle
    /\ modelConfig \in SearchConfigs
    /\ rerankerService \in BOOLEAN
    /\ indexSize \in (MaxLargeIndex - 1)..MaxLargeIndex
    /\ caller = "direct"
    /\ evalData = <<>>
    /\ NothingRunYet

NextSearch ==
    \/ DirectSearch
    \/ EmbedQuery
    \/ EmbedFails
    \/ RetrieveAndFilter
    \/ RetrieveFails
    \/ RerankSkipped
    \/ RerankSucceeds
    \/ RerankFails
    \/ RerankProcessingFails
    \/ ShapeAndReturn

SpecSearch == InitSearch /\ [][NextSearch]_vars

-----------------------------------------------------------------------------
(* Specification of a whole evaluation run over several eval items and a   *)
(* small index.                                                            *)

\* largest number of items in eval.json
MaxQueries == 2

\* an eval.json with distinct search texts
RunEvalData == <<[search |-> "python", expected |-> Some(<<2>>)],
                 [search |-> "rust", expected |-> None],
                 [search |-> "go", expected |-> Some(<<3, 2>>)]>>

\* sizes of the index of the run
RunIndexSizes == {0, 1}

InitRun ==
    /\ ComponentsIdle
    /\ modelConfig \in ModelConfigs
    /\ rerankerService \in BOOLEAN
    /\ indexSize \in RunIndexSizes
    /\ caller = "runEvaluation"
    /\ evalData \in {SubSeq(RunEvalData, 1, n) :
                         n \in 0..Min(MaxQueries, Len(RunEvalData))}
    /\ NothingRunYet

NextRun ==
    \/ RunEvaluationBegin
    \/ LoopNextQuery
    \/ LoopExit
    \/ EmbedQuery
    \/ EmbedFails
    \/ RetrieveAndFilter
    \/ RetrieveFails
    \/ RerankSkipped
    \/ RerankSucceeds
    \/ RerankFails
    \/ RerankProcessingFails
    \/ ShapeAndReturn
    \/ ScoreQuery
    \/ RecordQuery
    \/ ValidateQuery

SpecRun == InitRun /\ [][NextRun]_vars

-----------------------------------------------------------------------------
(* Inputs of the accumulator explored on its own *)

\* per-query counts an outcome may carry
CountValues == {0, 1, 2}

\* per-query <<recall, precision>> an outcome may carry, as fractions of 100
PctPairs == {<<FracInt(0), FracInt(0)>>, <<FracInt(100), FracInt(100)>>,
             <<Frac(100, 3), FracInt(50)>>}

\* metrics objects satisfying the data-model invariants: foundCount <=
\* returnedCount, foundCount <= expectedCount when expectedCount > 0,
\* recall and precision within [0, 100]
OutcomeInputs ==
    {[search |-> "q", tokens |-> 10, rerankerTokens |-> 0, runtime |-> 100,
      cost |-> 1000004, embeddingCost |-> 1000004, rerankerCost |-> 0,
      recall |-> t[4][1], precision |-> t[4][2],
      expectedCount |-> t[1], foundCount |-> t[2], returnedCount |-> t[3]] :
        t \in {u \in CountValues \X CountValues \X CountValues \X PctPairs :
                /\ u[2] <= u[3]
                /\ u[1] > 0 => u[2] <= u[1]}}

-----------------------------------------------------------------------------
(* Specification of the pure functions: Init draws the two arrays, the     *)
(* actions apply calculateRecall, calculatePrecision and validateResults.  *)

InitPure ==
    /\ foundIds \in SeqsUpTo(Ids, MaxFound)
    /\ expectedIds \in SeqsUpTo(Ids, MaxExpected)
    /\ recall = None
    /\ precision = None
    /\ validation = None
    /\ evaluateMetrics = <<>>
    /\ totals = None
    /\ PipelineIdle

CallCalculateRecall ==
    /\ recall = None
    /\ recall' = Some(calculateRecall(foundIds, expectedIds))
    /\ UNCHANGED <<foundIds, expectedIds, precision, validation,
                   evaluateMetrics, totals, pipelineVars>>

CallCalculatePrecision ==
    /\ precision = None
    /\ precision' = Some(calculatePrecision(foundIds, expectedIds))
    /\ UNCHANGED <<foundIds, expectedIds, recall, validation,
                   evaluateMetrics, totals, pipelineVars>>

CallValidateResults ==
    /\ validation = None
    /\ validation' = Some(validateResults(foundIds, expectedIds))
    /\ UNCHANGED <<foundIds, expectedIds, recall, precision,
                   evaluateMetrics, totals, pipelineVars>>

NextPure ==
    \/ CallCalculateRecall
    \/ CallCalculatePrecision
    \/ CallValidateResults

SpecPure == InitPure /\ [][NextPure]_vars

-----------------------------------------------------------------------------
(* Specification of the accumulator: any outcomes recorded in any order,   *)
(* the report taken at any time.                                           *)

InitMetrics ==
    /\ foundIds = <<>>
    /\ expectedIds = <<>>
    /\ recall = None
    /\ precision = None
    /\ validation = None
    /\ evaluateMetrics = <<>>
    /\ totals = None
    /\ PipelineIdle

RecordOutcome ==
    /\ Len(evaluateMetrics) < MaxHistory
    /\ \E metrics \in OutcomeInputs :
           evaluateMetrics' = addEvaluateMetrics(evaluateMetrics, metrics)
    /\ totals' = None
    /\ allMetrics' = None
    /\ UNCHANGED <<foundIds, expectedIds, recall, precision, validation,
                   modelConfig, rerankerService, indexSize, evalData, caller,
                   commandVars, detectionVars, retryVars, pc, error,
                   searchVars, evalIndex, runResults, expectedFoundCount,
                   rerankerMetrics>>

CallGetEvaluateTotals ==
    /\ totals' = Some(getEvaluateTotals(evaluateMetrics))
    /\ UNCHANGED <<foundIds, expectedIds, recall, precision, validation,
                   evaluateMetrics, pipelineVars>>

\* this.metrics.getAllMetrics() is called and its report kept
CallGetAllMetrics ==
    /\ allMetrics' = Some(getAllMetrics(generateMetrics, evaluateMetrics))
    /\ UNCHANGED <<foundIds, expectedIds, recall, precision, validation,
                   evaluateMetrics, totals,
                   modelConfig, rerankerService, indexSize, evalData, caller,
                   commandVars, detectionVars, retryVars, pc, error,
                   searchVars, evalIndex, runResults, expectedFoundCount,
                   rerankerMetrics>>

NextMetrics ==
    \/ RecordOutcome
    \/ CallGetEvaluateTotals
    \/ CallGetAllMetrics

SpecMetrics == InitMetrics /\ [][NextMetrics]_vars

-----------------------------------------------------------------------------
(* Specification of the accumulator in doubles: outcomes as runEvaluation  *)
(* measures them, recorded in any order, the report taken at any time.     *)

MaxOrderHistory == 3

\* <<expectedCount, foundCount, returnedCount>> of the queries recorded
MeasuredCounts == {<<3, 1, 1>>, <<1, 1, 1>>, <<2, 1, 2>>, <<1, 0, 0>>}

\* the metrics object runEvaluation builds for a query with these counts:
\* recall and precision as calculateRecall and calculatePrecision compute
\* them for a non-empty expected list
MeasuredOutcome(c) ==
    [search |-> "q", tokens |-> 10, rerankerTokens |-> 0, runtime |-> 100,
     cost |-> 1000004, embeddingCost |-> 1000004, rerankerCost |-> 0,
     recall |-> DoublePercent(c[2], c[1]),
     precision |-> IF c[3] = 0 THEN DoubleZero ELSE DoublePercent(c[2], c[3]),
     expectedCount |-> c[1], foundCount |-> c[2], returnedCount |-> c[3]]

InitOrder ==
    /\ foundIds = <<>>
    /\ expectedIds = <<>>
    /\ recall = None
    /\ precision = None
    /\ validation = None
    /\ evaluateMetrics = <<>>
    /\ totals = None
    /\ PipelineIdle

RecordMeasuredOutcome ==
    /\ Len(evaluateMetrics) < MaxOrderHistory
    /\ \E c \in MeasuredCounts :
           evaluateMetrics' = addEvaluateMetrics(evaluateMetrics, MeasuredOutcome(c))
    /\ totals' = None
    /\ UNCHANGED <<foundIds, expectedIds, recall, precision, validation,
                   pipelineVars>>

CallGetEvaluateTotalsDouble ==
    /\ totals' = Some(getEvaluateTotalsDouble(evaluateMetrics))
    /\ UNCHANGED <<foundIds, expectedIds, recall, precision, validation,
                   evaluateMetrics, pipelineVars>>

NextOrder ==
    \/ RecordMeasuredOutcome
    \/ CallGetEvaluateTotalsDouble

SpecOrder == InitOrder /\ [][NextOrder]_vars

-----------------------------------------------------------------------------
(* The commands: generate (EmbeddingsEvaluator.generateEmbeddingsOnly and  *)
(* Generator) and the full pipeline (EmbeddingsEvaluator.run).  The index  *)
(* folder holds index files by name; an index file holds its items in      *)
(* insertion order.                                                        *)

\* largest number of items in content.json
MaxContent == 2

\* the index file Generator.initialize opens
GeneratorIndexFile == "index.json"

\* the index file EmbeddingsEvaluator.initialize opens, `${modelName}.json`
\* for the default model name
EvaluatorIndexFile == "default.json"

IndexFiles == {GeneratorIndexFile, EvaluatorIndexFile}

\* items of content.json, with the ids in the order the index answers them
ContentItems ==
    <<[id |-> 2, title |-> "Python", description |-> "Data science"],
      [id |-> 1, title |-> "Rust", description |-> "Systems"],
      [id |-> 3, title |-> "Go", description |-> "Services"]>>

Contents == {SubSeq(ContentItems, 1, n) : n \in 0..Min(MaxContent, Len(ContentItems))}

\* const text = `${item.title} ${item.description}`
textOf(item) == item.title \o " " \o item.description

\* the vector the embedding API answers for a text
EmbeddingOf(text) == <<"embedding", text>>

\* the object handed to index.insertItem for a content item
indexItemOf(item) ==
    [vector |-> EmbeddingOf(textOf(item)),
     metadata |-> [id |-> item.id, title |-> item.title,
                   description |-> item.description, text |-> textOf(item)]]

\* an item left in an index by an earlier generation of other content
StaleItem ==
    [vector |-> EmbeddingOf("Python Old course"),
     metadata |-> [id |-> 2, title |-> "Python", description |-> "Old course",
                   text |-> "Python Old course"]]

\* what an index file may hold before the command: nothing (no file), no
\* item, an item of an earlier generation
IndexFileStates == {None, Some(<<>>), Some(<<StaleItem>>)}

DiskStates == [IndexFiles -> IndexFileStates]

\* index.deleteIndex(): the index file is gone; the library removes the
\* index folder, so another index file in it may be gone as well
deleteIndex(d, file) ==
    {[f \in IndexFiles |-> IF f = file \/ f \in gone THEN None ELSE d[f]] :
        gone \in SUBSET (IndexFiles \ {file})}

\* index.createIndex(): an index file without items
createIndex(d, file) == [d EXCEPT ![file] = Some(<<>>)]

\* an insertItem that replaces the items of the index by the new one
insertItemOverwrites(d, file, item) == [d EXCEPT ![file] = Some(<<item>>)]

\* index.insertItem(item)
insertItem(d, file, item) == [d EXCEPT ![file] = Some(Append(The(d[file]), item))]

\* generatorMetrics.generateMetrics.forEach(metric =>
\*     this.metrics.addGenerateMetrics(metric))
RECURSIVE mergeGenerateMetrics(_, _)
mergeGenerateMetrics(list, added) ==
    IF added = <<>> THEN list
    ELSE mergeGenerateMetrics(addGenerateMetrics(list, Head(added)), Tail(added))

\* the variables of the evaluation and of the other components, which a
\* command step leaves alone
evaluationVars == <<modelConfig, rerankerService, evalData, pc, searchVars,
                    evalIndex, runResults, scoreVars, evaluateMetrics,
                    rerankerMetrics, totals, detectionVars, retryVars,
                    reportVars>>

\* the process right after the command line is parsed and the evaluator
\* constructed: the command, the disk and the dataset are given
InitCommand ==
    /\ command \in {"generate", "run"}
    /\ cmdPc = IF command = "generate" THEN "generator.initialize" ELSE "initialize"
    /\ disk \in DiskStates
    /\ content \in Contents
    /\ itemIndex = 0
    /\ generatorMetrics = <<>>
    /\ generateMetrics = <<>>
    /\ metricsFile = None
    /\ resultsFile = None
    /\ exitCode = None
    /\ modelConfig \in SearchConfigs
    /\ rerankerService \in BOOLEAN
    /\ indexSize = 0
    /\ caller = "none"
    /\ evalData = <<RunEvalData[1]>>
    /\ NothingRunYet
    /\ DetectionIdle
    /\ RetryIdle
    /\ ReportIdle

\* EmbeddingsEvaluator.initialize() called by run, the first time and after
\* generating; run goes on to getIndexStats the first time
EvaluatorInitialize ==
    /\ cmdPc \in {"initialize", "reinitialize"}
    /\ disk[EvaluatorIndexFile] # None
    /\ cmdPc' = IF cmdPc = "initialize" THEN "stats" ELSE "runEvaluation"
    /\ UNCHANGED <<command, disk, content, itemIndex, generatorMetrics,
                   generateMetrics, metricsFile, resultsFile, exitCode,
                   indexSize, caller, error, evaluationVars>>

\* initialize() finds no index file and throws; the catch of run exits
EvaluatorInitializeThrows ==
    /\ cmdPc \in {"initialize", "reinitialize"}
    /\ disk[EvaluatorIndexFile] = None
    /\ error' = Some("No embeddings index found")
    /\ exitCode' = Some(1)
    /\ cmdPc' = "exited"
    /\ UNCHANGED <<command, disk, content, itemIndex, generatorMetrics,
                   generateMetrics, metricsFile, resultsFile, indexSize, caller,
                   evaluationVars>>

\* run: const stats = await this.index.getIndexStats(); generate if the
\* index is empty
RunChecksStats ==
    /\ cmdPc = "stats"
    /\ cmdPc' = IF Len(The(disk[EvaluatorIndexFile])) = 0
                THEN "generator.initialize" ELSE "runEvaluation"
    /\ UNCHANGED <<command, disk, content, itemIndex, generatorMetrics,
                   generateMetrics, metricsFile, resultsFile, exitCode,
                   indexSize, caller, error, evaluationVars>>

\* generateEmbeddingsOnly up to Generator.initialize(): a new Generator, its
\* index deleted if it exists and created
GeneratorInitialize ==
    /\ cmdPc = "generator.initialize"
    /\ \E d \in IF disk[GeneratorIndexFile] # None
                 THEN deleteIndex(disk, GeneratorIndexFile) ELSE {disk} :
           disk' = createIndex(d, GeneratorIndexFile)
    /\ generatorMetrics' = <<>>
    /\ itemIndex' = 0
    /\ cmdPc' = "buildIndex"
    /\ UNCHANGED <<command, content, generateMetrics, metricsFile, resultsFile,
                   exitCode, indexSize, caller, error, evaluationVars>>

\* one round of the loop of buildIndex: the item's text embedded, its
\* metrics added, the item inserted
BuildIndexItem ==
    /\ cmdPc = "buildIndex"
    /\ itemIndex < Len(content)
    /\ LET item == content[itemIndex + 1]
       IN  /\ \E t \in TokenCounts, rt \in Runtimes :
                 generatorMetrics' =
                     addGenerateMetrics(generatorMetrics,
                         [id |-> item.id, title |-> item.title, tokens |-> t,
                          runtime |-> rt, cost |-> calculateCost(modelConfig, t)])
           /\ disk' = insertItem(disk, GeneratorIndexFile, indexItemOf(item))
    /\ itemIndex' = itemIndex + 1
    /\ UNCHANGED <<command, cmdPc, content, generateMetrics, metricsFile,
                   resultsFile, exitCode, indexSize, caller, error,
                   evaluationVars>>

\* generateEmbedding throws for an item: buildIndex rethrows,
\* generateEmbeddingsOnly exits
BuildIndexEmbeddingFails ==
    /\ cmdPc = "buildIndex"
    /\ itemIndex < Len(content)
    /\ error' = Some("embedding failed")
    /\ exitCode' = Some(1)
    /\ cmdPc' = "exited"
    /\ UNCHANGED <<command, disk, content, itemIndex, generatorMetrics,
                   generateMetrics, metricsFile, resultsFile, indexSize, caller,
                   evaluationVars>>

\* insertItem throws for an item whose metrics are already added
BuildIndexInsertFails ==
    /\ cmdPc = "buildIndex"
    /\ itemIndex < Len(content)
    /\ LET item == content[itemIndex + 1]
       IN  \E t \in TokenCounts, rt \in Runtimes :
             generatorMetrics' =
                 addGenerateMetrics(generatorMetrics,
                     [id |-> item.id, title |-> item.title, tokens |-> t,
                      runtime |-> rt, cost |-> calculateCost(modelConfig, t)])
    /\ error' = Some("insert failed")
    /\ exitCode' = Some(1)
    /\ cmdPc' = "exited"
    /\ UNCHANGED <<command, disk, content, itemIndex, generateMetrics,
                   metricsFile, resultsFile, indexSize, caller, evaluationVars>>

\* after the loop: generate() writes the generation metrics and returns,
\* generateEmbeddingsOnly merges them into the evaluator's metrics
GeneratorFinish ==
    /\ cmdPc = "buildIndex"
    /\ itemIndex = Len(content)
    /\ metricsFile' = Some([items |-> generatorMetrics,
                            totals |-> getGenerateTotals(generatorMetrics)])
    /\ generateMetrics' = mergeGenerateMetrics(generateMetrics, generatorMetrics)
    /\ cmdPc' = IF command = "run" THEN "reinitialize" ELSE "done"
    /\ UNCHANGED <<command, disk, content, itemIndex, generatorMetrics,
                   resultsFile, exitCode, indexSize, caller, error,
                   evaluationVars>>

\* run: const results = await this.runEvaluation(), against the index
\* initialize() opened
RunCallsRunEvaluation ==
    /\ cmdPc = "runEvaluation"
    /\ caller' = "runEvaluation"
    /\ indexSize' = Len(The(disk[EvaluatorIndexFile]))
    /\ cmdPc' = "evaluating"
    /\ UNCHANGED <<command, disk, content, itemIndex, generatorMetrics,
                   generateMetrics, metricsFile, resultsFile, exitCode, error,
                   evaluationVars>>

\* run after runEvaluation returned: the results and all metrics are written
RunSavesResults ==
    /\ cmdPc = "evaluating"
    /\ pc = "done"
    /\ resultsFile' = Some([results |-> runResults,
                            metrics |-> getAllMetrics(generateMetrics,
                                                      evaluateMetrics)])
    /\ cmdPc' = "done"
    /\ UNCHANGED <<command, disk, content, itemIndex, generatorMetrics,
                   generateMetrics, metricsFile, exitCode, indexSize, caller,
                   error, evaluationVars>>

\* runEvaluation threw: the catch of run exits
RunCatchesError ==
    /\ cmdPc = "evaluating"
    /\ pc = "failed"
    /\ exitCode' = Some(1)
    /\ cmdPc' = "exited"
    /\ UNCHANGED <<command, disk, content, itemIndex, generatorMetrics,
                   generateMetrics, metricsFile, resultsFile, indexSize, caller,
                   error, evaluationVars>>

NextCommand ==
    \/ EvaluatorInitialize
    \/ EvaluatorInitializeThrows
    \/ RunChecksStats
    \/ GeneratorInitialize
    \/ BuildIndexItem
    \/ BuildIndexEmbeddingFails
    \/ BuildIndexInsertFails
    \/ GeneratorFinish
    \/ RunCallsRunEvaluation
    \/ RunSavesResults
    \/ RunCatchesError
    \/ RunEvaluationBegin
    \/ LoopNextQuery
    \/ LoopExit
    \/ EmbedQuery
    \/ EmbedFails
    \/ RetrieveAndFilter
    \/ RetrieveFails
    \/ RerankSkipped
    \/ RerankSucceeds
    \/ RerankFails
    \/ RerankProcessingFails
    \/ ShapeAndReturn
    \/ ScoreQuery
    \/ RecordQuery
    \/ ValidateQuery

SpecCommand == InitCommand /\ [][NextCommand]_vars

-----------------------------------------------------------------------------
(* The reranker detection helpers of lib/rerank-utils.js.  A configuration *)
(* object is a function from the keys it has to their string values; a     *)
(* missing key reads as undefined (None).                                  *)

\* keys a configuration may carry
ConfigKeys == {"reranker", "reranker-vendor", "reranker-model"}

\* values a key may have
ConfigValues == {"", "voyageai", "VoyageAI", "cohere", "rerank-2.5"}

\* configuration objects, {} among them
ConfigObjects == UNION {[keys -> ConfigValues] : keys \in SUBSET ConfigKeys}

\* config[key]
Get(config, key) == IF key \in DOMAIN config THEN Some(config[key]) ELSE None

\* whether a string-or-undefined value is truthy
Truthy(v) == v # None /\ The(v) # ""

\* String.prototype.toLowerCase on the vendor names and message parts in use
toLowerCase(s) ==
    CASE s = "VoyageAI" -> "voyageai"
      [] s = "Sharing Violation" -> "sharing violation"
      [] s = "Access Denied" -> "access denied"
      [] OTHER -> s

\* String.prototype.toUpperCase on the vendor names in use
toUpperCase(s) ==
    CASE s \in {"voyageai", "VoyageAI"} -> "VOYAGEAI"
      [] s = "cohere" -> "COHERE"
      [] s = "rerank-2.5" -> "RERANK-2.5"
      [] OTHER -> s

\* isRerankerAvailable(rerankerService, config)
isRerankerAvailable(service, config) ==
    /\ service
    /\ config # None
    /\ Truthy(Get(The(config), "reranker"))
    /\ Truthy(Get(The(config), "reranker-model"))

\* validateRerankerConfig({vendor, model}); vendor and model are strings or
\* undefined
validateRerankerConfig(vendor, model) ==
    LET vendorError == IF ~Truthy(vendor)
                       THEN <<"Reranker vendor must be a non-empty string">>
                       ELSE <<>>
        modelError == IF ~Truthy(model)
                      THEN <<"Reranker model must be a non-empty string">>
                      ELSE <<>>
        supportError == IF Truthy(vendor) /\ toLowerCase(The(vendor)) # "voyageai"
                        THEN <<"Unsupported reranker vendor: " \o The(vendor)
                               \o ". Supported vendors: voyageai">>
                        ELSE <<>>
        errors == vendorError \o modelError \o supportError
    IN  [isValid |-> Len(errors) = 0, errors |-> errors]

\* getRerankerConfigHelp(vendor)
getRerankerConfigHelp(vendor) ==
    IF toLowerCase(vendor) # "voyageai"
    THEN "Unknown reranker vendor: " \o vendor \o ". Supported vendors: voyageai"
    ELSE "Configuration help for " \o vendor \o ":"

\* checkRerankerRequirements(modelConfig), env the names set in process.env
checkRerankerRequirements(config, env) ==
    IF config = None
    THEN [isValid |-> FALSE, hasReranker |-> FALSE,
          messages |-> <<"No model configuration provided">>]
    ELSE IF ~(Truthy(Get(The(config), "reranker"))
              /\ Truthy(Get(The(config), "reranker-model")))
    THEN [isValid |-> TRUE, hasReranker |-> FALSE,
          messages |-> <<"No reranker configured for this model">>]
    ELSE LET vendor == The(config)["reranker"]
             model == The(config)["reranker-model"]
             apiKeyName == toUpperCase(vendor) \o "_API_KEY"
             keyMessages == IF apiKeyName \notin env
                            THEN <<"Missing " \o apiKeyName
                                   \o " environment variable",
                                   getRerankerConfigHelp(vendor)>>
                            ELSE <<>>
             messages == keyMessages
                         \o validateRerankerConfig(Some(vendor), Some(model)).errors
         IN  [isValid |-> Len(messages) = 0, hasReranker |-> TRUE,
              vendor |-> vendor, model |-> model, messages |-> messages]

\* the arguments of the calls: a service object or null, a configuration
\* object or null, an environment with or without the API key
InitDetection ==
    /\ rerankerServiceArg \in BOOLEAN
    /\ configArg \in {None} \cup {Some(c) : c \in ConfigObjects}
    /\ environment \in SUBSET {"VOYAGEAI_API_KEY"}
    /\ available = None
    /\ requirements = None
    /\ CommandIdle
    /\ RetryIdle
    /\ ReportIdle
    /\ EvaluatorIdle
    /\ foundIds = <<>>
    /\ expectedIds = <<>>
    /\ recall = None
    /\ precision = None
    /\ validation = None
    /\ evaluateMetrics = <<>>
    /\ totals = None

CallIsRerankerAvailable ==
    /\ available = None
    /\ available' = Some(isRerankerAvailable(rerankerServiceArg, configArg))
    /\ UNCHANGED <<rerankerServiceArg, configArg, environment, requirements,
                   commandVars, reportVars, retryVars, modelConfig, rerankerService,
                   indexSize, evalData, caller, pc, error, searchVars, evalIndex,
                   runResults, scoreVars, evaluateMetrics, rerankerMetrics,
                   totals>>

CallCheckRerankerRequirements ==
    /\ requirements = None
    /\ requirements' = Some(checkRerankerRequirements(configArg, environment))
    /\ UNCHANGED <<rerankerServiceArg, configArg, environment, available,
                   commandVars, reportVars, retryVars, modelConfig, rerankerService,
                   indexSize, evalData, caller, pc, error, searchVars, evalIndex,
                   runResults, scoreVars, evaluateMetrics, rerankerMetrics,
                   totals>>

NextDetection ==
    \/ CallIsRerankerAvailable
    \/ CallCheckRerankerRequirements

SpecDetection == InitDetection /\ [][NextDetection]_vars

-----------------------------------------------------------------------------
(* LocalIndexWrapper.retryOperation                                          *)
(*                                                                           *)
(* An error is a record with its code (absent for a plain Error) and its     *)
(* message, a sequence of parts whose concatenation is the text;             *)
(* String.prototype.includes is decided part by part.                        *)

DefaultMaxRetries == 5

\* the operations wrapped by the call sites of retryOperation
OperationNames == {"createIndex", "insertItem"}

\* what a wrapped operation resolves to
OperationValues == {"undefined", "item"}

\* the errors a wrapped operation rejects with
OperationErrors ==
    { [code |-> Some("EPERM"),  message |-> <<"EPERM: ", "operation not permitted", ", rename">>],
      [code |-> Some("EBUSY"),  message |-> <<>>],
      [code |-> None,           message |-> <<"Sharing Violation", " on index.json">>],
      [code |-> Some("ENOENT"), message |-> <<"ENOENT: ", "no such file or directory">>],
      [code |-> None,           message |-> <<"Index does not exist">>],
      [code |-> None,           message |-> <<>>] }

retryableErrors == {"EPERM", "EBUSY", "EACCES", "EMFILE", "ENFILE"}

retryableMessages ==
    {"operation not permitted", "resource busy", "access denied",
     "sharing violation", "lock violation"}

\* error.message.toLowerCase()
lowerMessage(message) == [i \in 1..Len(message) |-> toLowerCase(message[i])]

\* lowerMessage.includes(msg)
includes(message, msg) == \E i \in 1..Len(message) : message[i] = msg

shouldRetryWindowsErrorAlways(err) == TRUE

\* shouldRetryWindowsError(error)
shouldRetryWindowsError(err) ==
    IF IsSome(err.code) /\ The(err.code) \in retryableErrors
    THEN TRUE
    ELSE IF err.message # <<>>
         THEN \E msg \in retryableMessages : includes(lowerMessage(err.message), msg)
         ELSE FALSE

\* delays are counted in sixteenths of a millisecond, which makes
\* 200 * Math.pow(1.5, attempt - 1) a whole number up to the fifth attempt
DelayUnit == 16

\* Math.random() * 100, in sixteenths of a millisecond
Jitters == {0, 800, 1599}

RECURSIVE Power(_, _)
\* Math.pow on whole numbers
Power(b, n) == IF n = 0 THEN 1 ELSE b * Power(b, n - 1)

\* calculateRetryDelay(attempt), jitter being the value of Math.random() * 100
calculateRetryDelay(n, jitter) ==
    Min((200 * DelayUnit * Power(3, n - 1)) \div Power(2, n - 1) + jitter,
        2000 * DelayUnit)

\* the files of the index directory
DirectoryFiles == {"index.json", "index.json.tmp"}

\* file.endsWith('.tmp') || file.includes('.tmp') || ...
isTempFile(file) == file = "index.json.tmp"

\* cleanupTempFiles(): the directories it can leave behind; an unlink that
\* fails is ignored and leaves its file
cleanupTempFiles(files) ==
    { files \ removed : removed \in SUBSET {f \in files : isTempFile(f)} }

exhaustedErrorBare(name, retries, last) == last

\* new Error(`Windows operation '${operationName}' failed after
\* ${maxRetries} attempts. Last error: ${lastError.message}`)
exhaustedError(name, retries, last) ==
    [code |-> None,
     message |-> <<"Windows operation '", name, "' failed after ",
                   ToString(retries), " attempts. Last error: ">> \o last.message]

\* the TypeError of reading lastError.message when lastError is undefined
undefinedLastError ==
    [code |-> None,
     message |-> <<"Cannot read properties of undefined (reading 'message')">>]

\* retryOperation(operation, operationName, maxRetries = 5) is entered:
\* lastError is undefined and attempt is 1
InitRetry ==
    /\ retryPc = "loop"
    /\ attempt = 1
    /\ maxRetries \in 0..DefaultMaxRetries
    /\ operationName \in OperationNames
    /\ lastError = None
    /\ operationLog = <<>>
    /\ retryResult = None
    /\ retryError = None
    /\ retryDelay = 0
    /\ tempFiles \in SUBSET DirectoryFiles
    /\ CommandIdle
    /\ DetectionIdle
    /\ ReportIdle
    /\ EvaluatorIdle
    /\ foundIds = <<>>
    /\ expectedIds = <<>>
    /\ recall = None
    /\ precision = None
    /\ validation = None
    /\ evaluateMetrics = <<>>
    /\ totals = None

\* return await operation(), the operation resolving
AttemptReturns ==
    /\ retryPc = "loop"
    /\ attempt <= maxRetries
    /\ \E value \in OperationValues :
          /\ operationLog' = Append(operationLog, [ok |-> TRUE, value |-> value])
          /\ retryResult' = Some(value)
    /\ retryPc' = "returned"
    /\ UNCHANGED <<attempt, maxRetries, operationName, lastError, retryError,
                   retryDelay, tempFiles, commandVars, reportVars, detectionVars,
                   modelConfig, rerankerService, indexSize, evalData, caller,
                   pc, error, searchVars, evalIndex, runResults, scoreVars,
                   evaluateMetrics, rerankerMetrics, totals>>

\* the operation rejects with an error shouldRetryWindowsError accepts: the
\* delay is computed and the timer set
AttemptFailsRetryable ==
    /\ retryPc = "loop"
    /\ attempt <= maxRetries
    /\ \E err \in OperationErrors, jitter \in Jitters :
          /\ shouldRetryWindowsError(err)
          /\ operationLog' = Append(operationLog, [ok |-> FALSE, error |-> err])
          /\ lastError' = Some(err)
          /\ retryDelay' = calculateRetryDelay(attempt, jitter)
    /\ retryPc' = "waiting"
    /\ UNCHANGED <<attempt, maxRetries, operationName, retryResult, retryError,
                   tempFiles, commandVars, reportVars, detectionVars,
                   modelConfig, rerankerService, indexSize, evalData, caller,
                   pc, error, searchVars, evalIndex, runResults, scoreVars,
                   evaluateMetrics, rerankerMetrics, totals>>

\* the timer fires: cleanupTempFiles(), continue
RetryTimerFires ==
    /\ retryPc = "waiting"
    /\ tempFiles' \in cleanupTempFiles(tempFiles)
    /\ attempt' = attempt + 1
    /\ retryPc' = "loop"
    /\ UNCHANGED <<maxRetries, operationName, lastError, operationLog,
                   retryResult, retryError, retryDelay, commandVars, reportVars,
                   detectionVars, modelConfig, rerankerService, indexSize,
                   evalData, caller, pc, error, searchVars, evalIndex,
                   runResults, scoreVars, evaluateMetrics, rerankerMetrics,
                   totals>>

\* the operation rejects with any other error: throw error
AttemptFailsFatal ==
    /\ retryPc = "loop"
    /\ attempt <= maxRetries
    /\ \E err \in OperationErrors :
          /\ ~shouldRetryWindowsError(err)
          /\ operationLog' = Append(operationLog, [ok |-> FALSE, error |-> err])
          /\ lastError' = Some(err)
          /\ retryError' = Some(err)
    /\ retryPc' = "thrown"
    /\ UNCHANGED <<attempt, maxRetries, operationName, retryResult, retryDelay,
                   tempFiles, commandVars, reportVars, detectionVars,
                   modelConfig, rerankerService, indexSize, evalData, caller,
                   pc, error, searchVars, evalIndex, runResults, scoreVars,
                   evaluateMetrics, rerankerMetrics, totals>>

\* the loop is left: throw new Error(...)
RetriesExhausted ==
    /\ retryPc = "loop"
    /\ attempt > maxRetries
    /\ retryError' = Some(IF lastError = None
                          THEN undefinedLastError
                          ELSE exhaustedError(operationName, maxRetries, The(lastError)))
    /\ retryPc' = "thrown"
    /\ UNCHANGED <<attempt, maxRetries, operationName, lastError, operationLog,
                   retryResult, retryDelay, tempFiles, commandVars, reportVars,
                   detectionVars, modelConfig, rerankerService, indexSize,
                   evalData, caller, pc, error, searchVars, evalIndex,
                   runResults, scoreVars, evaluateMetrics, rerankerMetrics,
                   totals>>

NextRetry ==
    \/ AttemptReturns
    \/ AttemptFailsRetryable
    \/ RetryTimerFires
    \/ AttemptFailsFatal
    \/ RetriesExhausted

SpecRetry == InitRetry /\ [][NextRetry]_vars

\* the wrapped operation settles and a timer that was set fires
SpecRetryFair == SpecRetry /\ WF_vars(NextRetry)

-----------------------------------------------------------------------------
(* Vocabulary of the properties *)

NoDuplicates(s) == \A i, j \in 1..Len(s) : s[i] = s[j] => i = j

Pct(n, d) == FracMulInt(Frac(n, d), 100)

InPercentRange(x) == FracLeq(FracInt(0), x) /\ FracLeq(x, FracInt(100))

\* sum of f[i] for i in 1..n, where f is a function to integers
RECURSIVE IntTotal(_, _)
IntTotal(f, n) == IF n = 0 THEN 0 ELSE f[n] + IntTotal(f, n - 1)

\* sum of f[i] for i in 1..n, where f is a function to fractions
RECURSIVE FracTotal(_, _)
FracTotal(f, n) == IF n = 0 THEN FracInt(0) ELSE FracAdd(f[n], FracTotal(f, n - 1))

-----------------------------------------------------------------------------
(* Properties of the pure functions, under SpecPure *)

\* C2: for every foundIds array and every duplicate-free expectedIds,
\* calculateRecall returns 100 when both are empty, 0 when only expectedIds is
\* empty, and otherwise 100 * |expectedIds /\ foundIds| / |expectedIds|.
C2_RecallValue ==
    (IsSome(recall) /\ NoDuplicates(expectedIds)) =>
        LET E == Range(expectedIds)
            F == Range(foundIds)
        IN  The(recall) =
                IF E = {} THEN (IF foundIds = <<>> THEN FracInt(100) ELSE FracInt(0))
                ELSE Pct(Cardinality(E \cap F), Cardinality(E))

\* recall has been computed for a found array with a repeated id that covers
\* part of a two-element expected set
C2_Witness ==
    /\ IsSome(recall)
    /\ NoDuplicates(expectedIds)
    /\ Len(expectedIds) = 2
    /\ ~NoDuplicates(foundIds)
    /\ The(recall) = FracInt(50)

\* C3 as stated: calculatePrecision returns 100 when both arrays are empty, 0
\* when only one of them is empty, and otherwise
\* 100 * |expectedIds /\ foundIds| / |foundIds|, with |foundIds| read either as
\* the length of the array or as the number of distinct ids in it.
C3_PrecisionSetFormula ==
    (IsSome(precision) /\ NoDuplicates(expectedIds)) =>
        LET E == Range(expectedIds)
            F == Range(foundIds)
        IN  IF E = {}
            THEN The(precision) =
                     (IF foundIds = <<>> THEN FracInt(100) ELSE FracInt(0))
            ELSE IF foundIds = <<>> THEN The(precision) = FracInt(0)
            ELSE \/ The(precision) = Pct(Cardinality(E \cap F), Len(foundIds))
                 \/ The(precision) = Pct(Cardinality(E \cap F), Cardinality(F))

\* C3, amended: calculatePrecision returns 100 when both arrays are empty, 0
\* when only one of them is empty, and otherwise 100 * (number of entries of
\* foundIds that are expected) / (length of foundIds); that is
\* 100 * |expectedIds /\ foundIds| / |foundIds| when foundIds has no duplicate,
\* and for duplicate-free inputs it equals recall with the arguments swapped.
C3_PrecisionValue ==
    IsSome(precision) =>
        LET E == Range(expectedIds)
            F == Range(foundIds)
            hits == Cardinality({i \in 1..Len(foundIds) : foundIds[i] \in E})
        IN  /\ The(precision) =
                  IF E = {} THEN (IF foundIds = <<>> THEN FracInt(100) ELSE FracInt(0))
                  ELSE IF foundIds = <<>> THEN FracInt(0)
                  ELSE Pct(hits, Len(foundIds))
            /\ (NoDuplicates(foundIds) /\ E # {} /\ foundIds # <<>>) =>
                   The(precision) = Pct(Cardinality(E \cap F), Cardinality(F))
            /\ (NoDuplicates(foundIds) /\ NoDuplicates(expectedIds)) =>
                   The(precision) = calculateRecall(expectedIds, foundIds)

\* precision has been computed for duplicate-free arrays of different lengths
\* that overlap in part
C3_Witness ==
    /\ IsSome(precision)
    /\ NoDuplicates(foundIds)
    /\ NoDuplicates(expectedIds)
    /\ Len(foundIds) = 3
    /\ Len(expectedIds) = 2
    /\ The(precision) = Frac(200, 3)

\* C7: validateResults always returns a verdict; it is valid when nothing is
\* expected, otherwise valid exactly when every expected id occurs in
\* foundIds, whatever the order and the repetitions of foundIds; an invalid
\* verdict names exactly the expected ids missing from foundIds.
C7_ValidatorSubset ==
    IsSome(validation) =>
        LET E == Range(expectedIds)
            F == Range(foundIds)
            v == The(validation)
        IN  /\ v.isValid \in BOOLEAN
            /\ expectedIds = <<>> => v.isValid
            /\ expectedIds # <<>> => (v.isValid <=> E \subseteq F)
            /\ ~v.isValid => Range(v.ids) = E \ F

\* a verdict has been given for expected ids that all occur in foundIds, but
\* not at its start and among repeated ids
C7_Witness ==
    /\ IsSome(validation)
    /\ The(validation).isValid
    /\ Len(expectedIds) = 2
    /\ Len(foundIds) = 3
    /\ foundIds[1] # expectedIds[1]
    /\ ~NoDuplicates(foundIds)

-----------------------------------------------------------------------------
(* Properties of the accumulator, under SpecMetrics *)

\* C1: whatever outcomes have been recorded, none included, the six
\* aggregate percentages of getEvaluateTotals lie in [0, 100].
C1_AggregateBounds ==
    IsSome(totals) =>
        \A avg \in {The(totals).microAveraging, The(totals).macroAveraging,
                    The(totals).weightedAveraging} :
            InPercentRange(avg.recall) /\ InPercentRange(avg.precision)

\* a report has been taken over a correctly empty outcome followed by an
\* outcome that found and returned something
C1_Witness ==
    /\ IsSome(totals)
    /\ Len(evaluateMetrics) = 2
    /\ evaluateMetrics[1].expectedCount = 0
    /\ evaluateMetrics[1].returnedCount = 0
    /\ evaluateMetrics[2].expectedCount > 0
    /\ evaluateMetrics[2].foundCount = evaluateMetrics[2].returnedCount
    /\ evaluateMetrics[2].foundCount > 0

\* what one outcome adds to the pooled expected, found and returned totals
PooledExpected(m) == IF m.expectedCount = 0 THEN 1 ELSE m.expectedCount
PooledFound(m) ==
    IF m.expectedCount = 0 THEN (IF m.returnedCount = 0 THEN 1 ELSE 0)
    ELSE m.foundCount
PooledReturned(m) ==
    IF m.expectedCount = 0 THEN Max(1, m.returnedCount) ELSE m.returnedCount

\* C4: micro recall is 100 * found / expected and micro precision is
\* 100 * found / returned over the pooled totals of the whole history (0 when
\* the denominator is 0), an empty expectation adding 1 to expected, 1 to
\* found iff nothing was returned, and max(1, returnedCount) to returned; the
\* two outcomes (0 expected, 0 returned), (0 expected, 1 returned) give a
\* micro precision of 50.
C4_MicroPooled ==
    IsSome(totals) =>
        LET h == evaluateMetrics
            n == Len(h)
            expected == IntTotal([i \in 1..n |-> PooledExpected(h[i])], n)
            found == IntTotal([i \in 1..n |-> PooledFound(h[i])], n)
            returned == IntTotal([i \in 1..n |-> PooledReturned(h[i])], n)
            micro == The(totals).microAveraging
        IN  /\ micro.recall = IF expected = 0 THEN FracInt(0) ELSE Pct(found, expected)
            /\ micro.precision = IF returned = 0 THEN FracInt(0) ELSE Pct(found, returned)
            /\ ( /\ n = 2
                 /\ h[1].expectedCount = 0 /\ h[1].returnedCount = 0
                 /\ h[2].expectedCount = 0 /\ h[2].returnedCount = 1 )
               => micro.precision = FracInt(50)

\* a report has been taken over an empty expectation that returned two
\* results and an outcome with its own counts
C4_Witness ==
    /\ IsSome(totals)
    /\ Len(evaluateMetrics) = 2
    /\ evaluateMetrics[1].expectedCount = 0
    /\ evaluateMetrics[1].returnedCount = 2
    /\ evaluateMetrics[2].expectedCount = 2
    /\ evaluateMetrics[2].foundCount = 1
    /\ evaluateMetrics[2].returnedCount = 2

\* the weight of one outcome in the weighted averages
Weight(m) == IF m.expectedCount > 0 THEN m.expectedCount ELSE 1

\* C5: the weighted recall (precision) is the sum over the recorded outcomes
\* of recall * w (precision * w) divided by the sum of w, where w is the
\* outcome's expectedCount, or 1 when that is 0; it is 0 for an empty history.
C5_WeightedAverage ==
    IsSome(totals) =>
        LET h == evaluateMetrics
            n == Len(h)
            weight == IntTotal([i \in 1..n |-> Weight(h[i])], n)
            recallSum ==
                FracTotal([i \in 1..n |-> FracMulInt(h[i].recall, Weight(h[i]))], n)
            precisionSum ==
                FracTotal([i \in 1..n |-> FracMulInt(h[i].precision, Weight(h[i]))], n)
            weighted == The(totals).weightedAveraging
        IN  IF n = 0
            THEN weighted.recall = FracInt(0) /\ weighted.precision = FracInt(0)
            ELSE /\ weighted.recall = FracDivInt(recallSum, weight)
                 /\ weighted.precision = FracDivInt(precisionSum, weight)

\* a report has been taken over an empty expectation and a two-id expectation
\* whose percentages differ
C5_Witness ==
    /\ IsSome(totals)
    /\ Len(evaluateMetrics) = 2
    /\ evaluateMetrics[1].expectedCount = 0
    /\ evaluateMetrics[2].expectedCount = 2
    /\ evaluateMetrics[1].recall # evaluateMetrics[2].recall
    /\ evaluateMetrics[1].precision # evaluateMetrics[2].precision

\* C6: the macro recall (precision) is the plain mean of the recorded
\* outcomes' own recall (precision) values, whatever their counts, and 0 for
\* an empty history.
C6_MacroMean ==
    IsSome(totals) =>
        LET h == evaluateMetrics
            n == Len(h)
            macro == The(totals).macroAveraging
        IN  IF n = 0
            THEN macro.recall = FracInt(0) /\ macro.precision = FracInt(0)
            ELSE /\ macro.recall =
                        FracDivInt(FracTotal([i \in 1..n |-> h[i].recall], n), n)
                 /\ macro.precision =
                        FracDivInt(FracTotal([i \in 1..n |-> h[i].precision], n), n)

\* a report has been taken over two outcomes with different counts and
\* different percentages, one of them an empty expectation
C6_Witness ==
    /\ IsSome(totals)
    /\ Len(evaluateMetrics) = 2
    /\ evaluateMetrics[1].expectedCount = 0
    /\ evaluateMetrics[2].expectedCount = 1
    /\ evaluateMetrics[1].recall = FracInt(100)
    /\ evaluateMetrics[2].recall = Frac(100, 3)

-----------------------------------------------------------------------------
(* Properties of search, under Spec *)

\* the elements of s at the indices of I, in increasing order of index
RECURSIVE PickAt(_, _)
PickAt(s, I) ==
    IF I = {} THEN <<>>
    ELSE LET last == CHOOSE i \in I : \A j \in I : j <= i
         IN  Append(PickAt(s, I \ {last}), s[last])

\* the k smallest elements of the set of indices I
FirstOf(I, k) == {i \in I : Cardinality({j \in I : j < i}) < k}

\* positions of the retrieved candidates at or above, and below, the threshold
AboveIndices == {i \in 1..Len(results) : results[i].score >= minSimilarity}
BelowIndices == {i \in 1..Len(results) : results[i].score < minSimilarity}

IdsOf(s) == {s[i].id : i \in 1..Len(s)}

\* C8: once the threshold step has run, the above-threshold list holds
\* exactly the retrieved candidates with score >= minSimilarity, the
\* below-threshold list the first three at most of those with score <
\* minSimilarity, both in retrieval order, and no candidate is in both.
C8_ThresholdPartition ==
    pc = "reranking" =>
        /\ candidateResults = PickAt(results, AboveIndices)
        /\ belowThresholdTop3 = PickAt(results, FirstOf(BelowIndices, 3))
        /\ IdsOf(candidateResults) \cap IdsOf(belowThresholdTop3) = {}

\* the threshold step has left a candidate scoring exactly the threshold
\* above it and three of four lower ones below it
C8_Witness ==
    /\ pc = "reranking"
    /\ Len(results) = 5
    /\ results[1].score = minSimilarity
    /\ Len(candidateResults) = 1
    /\ Cardinality(BelowIndices) = 4
    /\ Len(belowThresholdTop3) = 3

C10_RerankFallback ==
    rerankStatus = "failed" =>
        /\ pc # "failed"
        /\ error = None
        /\ candidateResults = PickAt(results, AboveIndices)
        /\ belowThresholdTop3 = PickAt(results, FirstOf(BelowIndices, 3))
        /\ IsSome(searchResponse) =>
               /\ The(searchResponse).belowThresholdResults =
                      PickAt(results, FirstOf(BelowIndices, 3))
               /\ The(searchResponse).results =
                      finalResultsOf(PickAt(results, AboveIndices),
                                     minSimilarity, topK)

\* search has returned after a failed rerank call, with candidates on both
\* sides of the threshold
C10_Witness ==
    /\ rerankStatus = "failed"
    /\ IsSome(searchResponse)
    /\ Len(candidateResults) >= 2
    /\ Len(belowThresholdTop3) >= 2
    /\ The(searchResponse).results = candidateResults

\* positions of the reranked candidates at or above, and below, the threshold
RerankedAboveIndices ==
    {i \in 1..Len(rerankedResults) : rerankedResults[i].score >= minSimilarity}
RerankedBelowIndices ==
    {i \in 1..Len(rerankedResults) : rerankedResults[i].score < minSimilarity}

\* C11: once reranking has succeeded, the above-threshold list holds exactly
\* the reranked candidates with relevance score >= minSimilarity and the
\* below-threshold list the first three at most of the others, both in the
\* reranker's order; every reranked candidate is one of the documents sent,
\* carries that document's similarity score as originalScore and is marked
\* reranked.
C11_RerankedPartition ==
    rerankStatus = "reranked" =>
        /\ candidateResults = PickAt(rerankedResults, RerankedAboveIndices)
        /\ belowThresholdTop3 =
               PickAt(rerankedResults, FirstOf(RerankedBelowIndices, 3))
        /\ \A i \in 1..Len(rerankedResults) :
               /\ rerankedResults[i].reranked
               /\ \E j \in 1..Len(rerankerInput) :
                      /\ rerankerInput[j].id = rerankedResults[i].id
                      /\ rerankerInput[j].score = rerankedResults[i].originalScore

\* reranking has succeeded in reversed order, has moved a candidate that was
\* above the similarity threshold below it and one that was below above it,
\* and has left more than three candidates below
C11_Witness ==
    /\ rerankStatus = "reranked"
    /\ Len(rerankedResults) = 5
    /\ rerankedResults[1].id = rerankerInput[5].id
    /\ Cardinality(RerankedBelowIndices) = 4
    /\ Len(belowThresholdTop3) = 3
    /\ Len(candidateResults) = 1
    /\ candidateResults[1].originalScore < minSimilarity
    /\ belowThresholdTop3[3].originalScore >= minSimilarity

-----------------------------------------------------------------------------
(* Properties of search over a large index, under SpecSearch *)

\* the index has been asked for candidates
CandidatesRequested ==
    \/ pc \in {"reranking", "shaping", "returned"}
    \/ pc = "failed" /\ error = Some("index query failed")

\* C12: search asks the index for max(topK * 10, 20) candidates when a
\* reranker is configured and for topK * 3 otherwise, and the rerank call is
\* handed the first 10 at most of the retrieved candidates, in retrieval
\* order.
C12_SearchLimitAndRerankInput ==
    /\ CandidatesRequested =>
           /\ rerankerService =>
                  searchLimit = (IF topK * 10 >= 20 THEN topK * 10 ELSE 20)
           /\ ~rerankerService => searchLimit = topK * 3
           /\ Len(results) <= searchLimit
    /\ rerankStatus \in {"reranked", "failed"} =>
           /\ rerankerService
           /\ Len(rerankerInput) = (IF Len(results) <= 10 THEN Len(results) ELSE 10)
           /\ \A i \in 1..Len(rerankerInput) :
                  /\ rerankerInput[i].id = results[i].id
                  /\ rerankerInput[i].score = results[i].score

\* a search for one result with a reranker has retrieved eleven candidates
\* and the reranker has answered for the ten it was sent
C12_Witness ==
    /\ rerankStatus = "reranked"
    /\ topK = 1
    /\ searchLimit = 20
    /\ Len(results) = 11
    /\ Len(rerankerInput) = 10
    /\ Len(rerankedResults) = 10

-----------------------------------------------------------------------------
(* Properties of a whole evaluation run, under SpecRun *)

\* the positions of one query's pipeline
QueryStages == {"embedding", "retrieving", "reranking", "shaping", "scoring",
                "recording", "validating"}

\* the order of the positions as the pipeline is described: the results are
\* validated, then the outcome is recorded
ClaimedRank ==
    [p \in QueryStages |->
        CASE p = "embedding" -> 1 [] p = "retrieving" -> 2 [] p = "reranking" -> 3
          [] p = "shaping" -> 4 [] p = "scoring" -> 5 [] p = "validating" -> 6
          [] p = "recording" -> 7]

\* the order of the positions with the outcome recorded before the results
\* are validated
RecordFirstRank ==
    [p \in QueryStages |->
        CASE p = "embedding" -> 1 [] p = "retrieving" -> 2 [] p = "reranking" -> 3
          [] p = "shaping" -> 4 [] p = "scoring" -> 5 [] p = "recording" -> 6
          [] p = "validating" -> 7]

\* position q may follow position p when the stages are ranked by rank: each
\* stage is followed by the next one, the last one by the loop head (the
\* query is done), the loop head by the first stage of the next query or by
\* the end of the run; embedding and retrieving may fail instead
Follows(rank, p, q) ==
    \/ p \in QueryStages /\ q \in QueryStages /\ rank[q] = rank[p] + 1
    \/ p \in QueryStages /\ rank[p] = 7 /\ q = "loop"
    \/ p = "loop" /\ q \in {"embedding", "done"}
    \/ p = "start" /\ q = "loop"
    \/ p \in {"embedding", "retrieving"} /\ q = "failed"

\* a step appends an outcome to the metrics history
OutcomeAppended == Len(evaluateMetrics') = Len(evaluateMetrics) + 1

\* a step runs the rerank call
RerankAttempted ==
    rerankStatus' # rerankStatus /\ rerankStatus' \in {"reranked", "failed"}

C14_FailurePropagates ==
    /\ [](pc = "failed" =>
             /\ IsSome(error)
             /\ searchResponse = None
             /\ totals = None
             /\ Len(evaluateMetrics) = evalIndex - 1
             /\ Len(runResults) = evalIndex - 1)
    /\ [][/\ pc # "failed"
          /\ pc' = "failed" =>
                 /\ pc \in {"embedding", "retrieving"}
                 /\ evaluateMetrics' = evaluateMetrics
                 /\ runResults' = runResults]_vars

\* the index query of the second item has failed after the first item was
\* recorded
C14_Witness ==
    /\ pc = "failed"
    /\ error = Some("index query failed")
    /\ evalIndex = 2
    /\ Len(evaluateMetrics) = 1
    /\ evaluateMetrics[1].search = "python"

\* C16: the eval items are taken in input order, a query starts only when
\* the one before it has been recorded, validated and pushed; at the end of a
\* run the metrics history holds one outcome for each eval item, in input
\* order, and queryCount is the number of eval items.
C16_InputOrder ==
    /\ [](pc = "done" =>
             /\ Len(evaluateMetrics) = Len(evalData)
             /\ Len(runResults) = Len(evalData)
             /\ \A i \in 1..Len(evalData) :
                    /\ evaluateMetrics[i].search = evalData[i].search
                    /\ runResults[i].search = evalData[i].search
             /\ The(totals).queryCount = Len(evalData))
    /\ [][/\ evalIndex' # evalIndex => evalIndex' = evalIndex + 1
          /\ (pc # "embedding" /\ pc' = "embedding") =>
                 /\ pc = "loop"
                 /\ query' = evalData[evalIndex].search
                 /\ Len(evaluateMetrics) = evalIndex - 1
                 /\ Len(runResults) = evalIndex - 1
                 /\ evalIndex > 1 => IsSome(validation)]_vars

\* a run over two eval items has ended with two different outcomes
C16_Witness ==
    /\ pc = "done"
    /\ Len(evalData) = 2
    /\ The(totals).queryCount = 2
    /\ evaluateMetrics[1].search = "python"
    /\ evaluateMetrics[2].search = "rust"
    /\ evaluateMetrics[1].recall # evaluateMetrics[2].recall

-----------------------------------------------------------------------------
(* Properties of what the run records *)

\* C15: once the outcome of a query whose rerank call failed has been
\* recorded, the entry appended to the metrics history for it has a
\* rerankerCost of 0 and a cost equal to the embedding cost of the query.
C15_RerankFailureOutcome ==
    (rerankStatus = "failed" /\ pc \in {"validating", "loop", "done"}) =>
        /\ Len(evaluateMetrics) >= 1
        /\ LET m == evaluateMetrics[Len(evaluateMetrics)]
           IN  /\ "rerankerCost" \in DOMAIN m
               /\ m.rerankerCost = 0
               /\ m.cost = The(searchResponse).metrics.embeddingCost

\* C18: the report over a history holds the query count and, as sums over
\* every recorded outcome, the total embedding tokens, reranker tokens,
\* runtime, embedding cost, reranker cost and cost; every outcome of the
\* history keeps the rerankerTokens, embeddingCost and rerankerCost it was
\* recorded with.
C18_StraightSums ==
    (IsSome(totals) /\ Len(evaluateMetrics) > 0) =>
        LET h == evaluateMetrics
            n == Len(h)
            t == The(totals)
        IN  /\ t.queryCount = n
            /\ t.totalTokens = IntTotal([i \in 1..n |-> h[i].tokens], n)
            /\ t.totalRuntime = IntTotal([i \in 1..n |-> h[i].runtime], n)
            /\ t.totalCost = IntTotal([i \in 1..n |-> h[i].cost], n)
            /\ \A i \in 1..n :
                   {"rerankerTokens", "embeddingCost", "rerankerCost"}
                       \subseteq DOMAIN h[i]
            /\ {"totalRerankerTokens", "totalEmbeddingCost", "totalRerankerCost"}
                   \subseteq DOMAIN t
            /\ t.totalRerankerTokens =
                   IntTotal([i \in 1..n |-> h[i].rerankerTokens], n)
            /\ t.totalEmbeddingCost =
                   IntTotal([i \in 1..n |-> h[i].embeddingCost], n)
            /\ t.totalRerankerCost =
                   IntTotal([i \in 1..n |-> h[i].rerankerCost], n)

\* the expected ids of the i-th eval item
ExpectedOf(i) ==
    IF evalData[i].expected = None THEN <<>> ELSE The(evalData[i].expected)

\* C19 as stated: every outcome recorded by runEvaluation has foundCount <=
\* returnedCount, and foundCount <= expectedCount when expectedCount > 0,
\* whatever the expected id list of the eval item and the final results.
C19_CountsBounded ==
    \A i \in 1..Len(evaluateMetrics) :
        LET m == evaluateMetrics[i]
        IN  /\ m.foundCount <= m.returnedCount
            /\ m.expectedCount > 0 => m.foundCount <= m.expectedCount

\* C19, amended: every outcome recorded by runEvaluation has foundCount <=
\* expectedCount, and foundCount <= returnedCount when the expected id list
\* of its eval item repeats no id, whatever the final results.
C19_OutcomeCounts ==
    \A i \in 1..Len(evaluateMetrics) :
        LET m == evaluateMetrics[i]
        IN  /\ m.expectedCount = Len(ExpectedOf(i))
            /\ m.foundCount <= m.expectedCount
            /\ NoDuplicates(ExpectedOf(i)) => m.foundCount <= m.returnedCount

\* an outcome has been recorded that found one of two expected ids among
\* two returned results
C19_Witness ==
    /\ Len(evaluateMetrics) = 1
    /\ ExpectedOf(1) = <<3, 2>>
    /\ evaluateMetrics[1].foundCount = 1
    /\ evaluateMetrics[1].returnedCount = 2

\* the end-to-end scenario: no reranker, threshold 0.4, expected {2}, and
\* the index answering ids 2, 1, 3 with scores 0.9, 0.5, 0.2
EndToEndScenario ==
    /\ caller = "runEvaluation"
    /\ ~rerankerService
    /\ modelConfig.minSimilarity = Some(4)
    /\ evalData = <<[search |-> "python", expected |-> Some(<<2>>)]>>
    /\ results = <<[id |-> 2, score |-> 9], [id |-> 1, score |-> 5],
                   [id |-> 3, score |-> 2]>>

\* C20: in the end-to-end scenario the found ids recorded for the query are
\* 2, 1, the verdict is valid, recall is 100 and precision is 50.
C20_EndToEnd ==
    (EndToEndScenario /\ pc \in {"loop", "done"} /\ Len(runResults) = 1) =>
        /\ runResults[1].found = <<2, 1>>
        /\ runResults[1].validation.isValid
        /\ runResults[1].metrics.recall = FracInt(100)
        /\ runResults[1].metrics.precision = FracInt(50)
        /\ Len(evaluateMetrics) = 1
        /\ evaluateMetrics[1].recall = FracInt(100)
        /\ evaluateMetrics[1].precision = FracInt(50)
        /\ evaluateMetrics[1].foundCount = 1
        /\ evaluateMetrics[1].returnedCount = 2

\* the run of the end-to-end scenario has ended
C20_Witness ==
    /\ EndToEndScenario
    /\ pc = "done"
    /\ Len(runResults) = 1
    /\ IsSome(totals)

\* the history with its outcomes in the order p, a permutation of 1..Len
Reordered(history, p) == [i \in 1..Len(history) |-> history[p[i]]]

\* C17 (as stated; the code diverges): getEvaluateTotals is
\* order-independent: whenever a report has been taken, taking it of any
\* permutation of the recorded outcomes gives the same report (query count,
\* summed totals, micro, macro and weighted recall and precision).
C17_OrderIndependent ==
    IsSome(totals) =>
        \A p \in Permutations(1..Len(evaluateMetrics)) :
            getEvaluateTotalsDouble(Reordered(evaluateMetrics, p)) = The(totals)

-----------------------------------------------------------------------------
(* Properties of the result list of an eval query, under Spec *)

-----------------------------------------------------------------------------
(* Properties of the commands, under SpecCommand *)

\* errors of the services outside the program: the embedding API and the
\* vector index
ServiceErrors == {Some("embedding failed"), Some("insert failed"),
                  Some("index query failed")}

\* C22 (as stated; the code diverges): whatever the index folder holds when
\* the full pipeline starts (no index, an empty index, a populated index),
\* and unless an outside service fails, the full pipeline ends as generate
\* followed by evaluate would: the index the evaluation uses holds the
\* embedded corpus, one item per content item in content order, and the
\* evaluation has run against it and its results are saved.
C22_RunIsGenerateThenEvaluate ==
    (command = "run" /\ cmdPc \in {"done", "exited"}) =>
        \/ error \in ServiceErrors
        \/ /\ cmdPc = "done"
           /\ disk[EvaluatorIndexFile] = Some(Map(content, indexItemOf))
           /\ indexSize = Len(content)
           /\ IsSome(resultsFile)

\* the index entry at position i of the generator's index is the embedding
\* of title + " " + description of the i-th content item, with its id,
\* title and description
EntryIsItem(i) ==
    LET entry == The(disk[GeneratorIndexFile])[i]
        item == content[i]
    IN  /\ entry.vector = EmbeddingOf(item.title \o " " \o item.description)
        /\ entry.metadata.id = item.id
        /\ entry.metadata.title = item.title
        /\ entry.metadata.description = item.description

\* C23: while the index is built, the generator's index holds exactly the
\* content items processed so far, in content order, each as the embedding
\* of title + " " + description with the item's id, title and description,
\* and there is one generation-metrics entry per processed item (so the
\* index starts empty whatever it held before); once generate has
\* succeeded, the index holds exactly one entry per content item and the
\* generation metrics one entry per item.
C23_GenerateRebuildsIndex ==
    /\ cmdPc = "buildIndex" =>
           /\ disk[GeneratorIndexFile] # None
           /\ Len(The(disk[GeneratorIndexFile])) = itemIndex
           /\ \A i \in 1..itemIndex : EntryIsItem(i)
           /\ Len(generatorMetrics) = itemIndex
           /\ \A i \in 1..itemIndex : generatorMetrics[i].id = content[i].id
    /\ IsSome(metricsFile) =>
           /\ disk[GeneratorIndexFile] # None
           /\ Len(The(disk[GeneratorIndexFile])) = Len(content)
           /\ \A i \in 1..Len(content) : EntryIsItem(i)
           /\ Len(The(metricsFile).items) = Len(content)
           /\ \A i \in 1..Len(content) :
                  The(metricsFile).items[i].id = content[i].id

\* the generate command has succeeded on a content of two items
C23_Witness ==
    /\ command = "generate"
    /\ cmdPc = "done"
    /\ IsSome(metricsFile)
    /\ Len(content) = 2
    /\ Len(The(disk[GeneratorIndexFile])) = 2

-----------------------------------------------------------------------------
(* Properties of the reranker detection helpers, under SpecDetection *)

\* the configuration has the keys 'reranker-vendor' and 'reranker-model',
\* each with a non-empty value, as the configurations of the tests do
CarriesVendorAndModel(config) ==
    /\ Truthy(Get(config, "reranker-vendor"))
    /\ Truthy(Get(config, "reranker-model"))

\* C24 (as stated; the code diverges): isRerankerAvailable is true when a
\* service is present and the configuration carries a reranker vendor and a
\* reranker model, and false when the service is null or the configuration
\* is empty; checkRerankerRequirements reports hasReranker = true for a
\* configuration carrying reranker vendor and model keys, and hasReranker =
\* false with isValid = true for one without any reranker key.
C24_RerankerDetection ==
    /\ (IsSome(available) /\ configArg # None) =>
           /\ (rerankerServiceArg /\ CarriesVendorAndModel(The(configArg))) =>
                  The(available)
           /\ (~rerankerServiceArg \/ DOMAIN The(configArg) = {}) =>
                  ~The(available)
    /\ (IsSome(requirements) /\ configArg # None) =>
           /\ CarriesVendorAndModel(The(configArg)) =>
                  The(requirements).hasReranker
           /\ DOMAIN The(configArg) \cap ConfigKeys = {} =>
                  /\ ~The(requirements).hasReranker
                  /\ The(requirements).isValid

-----------------------------------------------------------------------------
(* Properties of retryOperation, under SpecRetryFair *)

RetryEnded == retryPc \in {"returned", "thrown"}

FailedRetryably(entry) == ~entry.ok /\ shouldRetryWindowsError(entry.error)

NamesOperationAndCount(err) ==
    /\ \E i \in 1..Len(err.message) : err.message[i] = operationName
    /\ \E i \in 1..Len(err.message) : err.message[i] = ToString(maxRetries)

C25_Bounded ==
    /\ Len(operationLog) <= maxRetries
    /\ \A i \in 1..Len(operationLog) :
          /\ operationLog[i].ok =>
                /\ i = Len(operationLog)
                /\ retryPc = "returned"
                /\ retryResult = Some(operationLog[i].value)
                /\ retryError = None
          /\ (~operationLog[i].ok /\ ~shouldRetryWindowsError(operationLog[i].error)) =>
                /\ i = Len(operationLog)
                /\ retryPc = "thrown"
                /\ retryError = Some(operationLog[i].error)
                /\ retryResult = None
    /\ ( /\ RetryEnded
         /\ operationLog # <<>>
         /\ \A i \in 1..Len(operationLog) : FailedRetryably(operationLog[i]) ) =>
          /\ Len(operationLog) = maxRetries
          /\ retryPc = "thrown"
          /\ IsSome(retryError)
          /\ NamesOperationAndCount(The(retryError))
          /\ retryResult = None

\* C25: retryOperation ends, and it calls the wrapped operation at most
\* maxRetries times: a resolved call is the last call and its value is
\* returned, a call rejected with an error that is not retryable is the last
\* call and its error is rethrown, and when calls were made and every one was
\* rejected with a retryable error, maxRetries calls were made and the error
\* thrown names the operation and maxRetries.
C25_RetryTerminates == []C25_Bounded /\ <>RetryEnded

C25_Witness ==
    /\ retryPc = "thrown"
    /\ maxRetries = DefaultMaxRetries
    /\ Len(operationLog) = DefaultMaxRetries
    /\ \A i \in 1..Len(operationLog) : FailedRetryably(operationLog[i])
    /\ NamesOperationAndCount(The(retryError))

-----------------------------------------------------------------------------
(* Validation against recall, under SpecPure *)

\* C26: once both were computed for the same two arrays, with expected ids
\* the validation is valid exactly when the recall is 100; without expected
\* ids the validation is valid whatever was found, while the recall is 0 as
\* soon as something was found.
C26_ValidIffFullRecall ==
    (IsSome(validation) /\ IsSome(recall)) =>
        /\ expectedIds # <<>> =>
              (The(validation).isValid <=> FracEq(The(recall), FracInt(100)))
        /\ expectedIds = <<>> =>
              /\ The(validation).isValid
              /\ foundIds # <<>> => FracEq(The(recall), FracInt(0))

C26_Witness ==
    /\ IsSome(validation)
    /\ IsSome(recall)
    /\ Len(expectedIds) = 2
    /\ expectedIds[1] # expectedIds[2]
    /\ Len(foundIds) = 3
    /\ foundIds[1] \notin Range(expectedIds)
    /\ The(validation).isValid
    /\ FracEq(The(recall), FracInt(100))

-----------------------------------------------------------------------------
(* Properties of the rerank stage of a single query, under Spec *)

\* the similarity score the index gave the item with this id
SimilarityOf(id) ==
    results[CHOOSE i \in 1..Len(results) : results[i].id = id].score

\* the relevance score the reranker gave the item with this id
RelevanceOf(id) ==
    rerankedResults[CHOOSE i \in 1..Len(rerankedResults) :
                        rerankedResults[i].id = id].score

\* relevance score if the query was reranked, similarity score otherwise
EffectiveScoreOf(id) ==
    IF rerankStatus = "reranked" THEN RelevanceOf(id) ELSE SimilarityOf(id)

\* C27: in what search returns, reranked or not and fallen back or not,
\* every result has an effective score >= minSimilarity, every entry of
\* belowThresholdResults an effective score < minSimilarity, and no id of
\* belowThresholdResults is among the results, nor among the found ids the
\* recall and the precision are computed from.
C27_ScoresAgainstThreshold ==
    IsSome(searchResponse) =>
        LET response == The(searchResponse)
        IN  /\ \A i \in 1..Len(response.results) :
                  EffectiveScoreOf(response.results[i].id) >= minSimilarity
            /\ \A i \in 1..Len(response.belowThresholdResults) :
                  EffectiveScoreOf(response.belowThresholdResults[i].id) < minSimilarity
            /\ IdsOf(response.belowThresholdResults) \cap IdsOf(response.results) = {}
            /\ IsSome(recall) =>
                  Range(foundIds) \cap IdsOf(response.belowThresholdResults) = {}

\* a reranked query was scored: it returned a result whose similarity was
\* below the threshold, and a below-threshold entry whose similarity was not
C27_Witness ==
    /\ IsSome(searchResponse)
    /\ IsSome(recall)
    /\ rerankStatus = "reranked"
    /\ \E i \in 1..Len(The(searchResponse).results) :
          SimilarityOf(The(searchResponse).results[i].id) < minSimilarity
    /\ \E i \in 1..Len(The(searchResponse).belowThresholdResults) :
          SimilarityOf(The(searchResponse).belowThresholdResults[i].id) >= minSimilarity
    /\ foundIds # <<>>

-----------------------------------------------------------------------------
(* Properties of reranking a large candidate pool, under SpecSearch *)

\* ids of the first ten retrieved candidates
FirstTenIds == {results[i].id : i \in 1..Min(Len(results), RerankInputLimit)}

\* C28: when reranking succeeded, the ids search returns are ids of the first
\* 10 retrieved candidates, so at most 10, whatever the similarity score of
\* the candidates retrieved after them; with minSimilarity > 0 they are
\* exactly the first-10 candidates whose relevance score is >= minSimilarity,
\* whatever their similarity score.
C28_FoundAmongFirstTen ==
    (rerankStatus = "reranked" /\ IsSome(searchResponse)) =>
        LET final == The(searchResponse).results
        IN  /\ IdsOf(final) \subseteq FirstTenIds
            /\ Len(final) <= RerankInputLimit
            /\ minSimilarity > 0 =>
                  IdsOf(final) = {id \in FirstTenIds : RelevanceOf(id) >= minSimilarity}

\* eleven candidates were retrieved, the eleventh at or above the threshold,
\* and the reranked query returned the ten others
C28_Witness ==
    /\ rerankStatus = "reranked"
    /\ IsSome(searchResponse)
    /\ Len(results) = MaxLargeIndex
    /\ minSimilarity > 0
    /\ results[MaxLargeIndex].score >= minSimilarity
    /\ Len(The(searchResponse).results) = RerankInputLimit
    /\ results[MaxLargeIndex].id \notin IdsOf(The(searchResponse).results)

-----------------------------------------------------------------------------
(* Properties of the evaluation history, under SpecMetrics *)

\* C30: in every step the history keeps its entries as they were and gains
\* at most one at its end; a step that leaves a report of getEvaluateTotals
\* or getAllMetrics leaves the history as it was; and a report taken while
\* one of the same call is in hand, nothing having been recorded since,
\* equals it, the evaluation totals inside the report of getAllMetrics
\* being those of getEvaluateTotals.
C30_AppendOnlyReadOnly ==
    [][ /\ Len(evaluateMetrics') \in {Len(evaluateMetrics), Len(evaluateMetrics) + 1}
        /\ \A i \in 1..Len(evaluateMetrics) : evaluateMetrics'[i] = evaluateMetrics[i]
        /\ (IsSome(totals') \/ IsSome(allMetrics')) => evaluateMetrics' = evaluateMetrics
        /\ (IsSome(totals) /\ IsSome(totals')) => totals' = totals
        /\ (IsSome(allMetrics) /\ IsSome(allMetrics')) => allMetrics' = allMetrics
        /\ IsSome(allMetrics') =>
              /\ The(allMetrics').evaluate.items = evaluateMetrics
              /\ IsSome(totals') => The(allMetrics').evaluate.totals = The(totals')
      ]_vars

\* two different outcomes were recorded and both reports taken since
C30_Witness ==
    /\ Len(evaluateMetrics) >= 2
    /\ evaluateMetrics[1] # evaluateMetrics[2]
    /\ IsSome(totals)
    /\ IsSome(allMetrics)

=============================================================================
